---- MODULE Spec2Model ----
(***************************************************************************)
(* Grid-world MDP environments (plain, windy, cliff), the dynamic-         *)
(* programming solver (policy evaluation / improvement / iteration, value  *)
(* iteration) and the temporal-difference solver (SARSA, Q-learning).      *)
(*                                                                         *)
(* Numbers.  The program computes in IEEE doubles.  Here a value is an     *)
(* integer count of 1/SCALE units (fixed point, rounded down after each    *)
(* update), a policy probability is an integer count of twelfths           *)
(* (1/4 = 3, 1/3 = 4, 1/2 = 6, 1 = 12) and the discount / learning rates   *)
(* are fractions num/den.  Rewards are whole numbers in the program        *)
(* (-1, -100, 0) and are kept as integers, scaled where they meet values.  *)
(***************************************************************************)
EXTENDS Integers, Sequences, FiniteSets, TLC

\* ------------------------------------------------------------------------
\* Bounds of the model
\* ------------------------------------------------------------------------
MaxGridSize == 4          \* plain grids of size 3 .. MaxGridSize
SmallMaxIterations == 3   \* max_iterations is 1 .. SmallMaxIterations or the default 1000
MaxCalls == 2             \* top-level DP calls in one behaviour
MaxSolvers == 2           \* DPSolver objects constructed in one behaviour
MaxEpisodes == 2          \* max_episodes is 1 or MaxEpisodes
MaxStepsPerEpisode == 5   \* max_steps_per_episode is 1 or MaxStepsPerEpisode
MaxTotalSteps == 5        \* inner-loop steps followed in one sarsa / q_learning call
MaxSwitches == 2          \* changes of the running solver when two share an environment
MaxExportedIterations == 2  \* total_iterations of the results handed to the exporter

\* ------------------------------------------------------------------------
\* Action enumeration (class Action(IntEnum))
\* ------------------------------------------------------------------------
UP == 0
DOWN == 1
LEFT == 2
RIGHT == 3
Action == {UP, DOWN, LEFT, RIGHT}

\* ACTION_DELTAS: (row_delta, col_delta) of each action
ACTION_DELTAS(a) ==
    CASE a = UP    -> <<-1, 0>>
      [] a = DOWN  -> <<1, 0>>
      [] a = LEFT  -> <<0, -1>>
      [] a = RIGHT -> <<0, 1>>

\* current_state = None
NoState == -1

Max2(a, b) == IF a >= b THEN a ELSE b
Min2(a, b) == IF a <= b THEN a ELSE b
Abs(x) == IF x < 0 THEN -x ELSE x

\* ------------------------------------------------------------------------
\* Environment configurations
\* ------------------------------------------------------------------------
\* EnvironmentConfig / BasicGridEnv.__init__ : N x N grid, terminal corners
BasicGridEnv(n) ==
    [kind |-> "basic", height |-> n, width |-> n,
     start_state |-> NoState, goal_state |-> NoState,
     step_reward |-> -1, goal_reward |-> 0, cliff_reward |-> 0,
     wind |-> << >>]

\* WindyGridConfig defaults / WindyGridEnv.__init__
WindyGridEnv ==
    [kind |-> "windy", height |-> 7, width |-> 10,
     start_state |-> 3 * 10 + 0, goal_state |-> 3 * 10 + 7,
     step_reward |-> -1, goal_reward |-> 0, cliff_reward |-> 0,
     wind |-> <<0, 0, 0, 1, 1, 1, 2, 2, 1, 0>>]

\* CliffWalkingConfig defaults / CliffWalkingEnv.__init__
CliffWalkingEnv ==
    [kind |-> "cliff", height |-> 4, width |-> 12,
     start_state |-> 3 * 12 + 0, goal_state |-> 3 * 12 + 11,
     step_reward |-> -1, goal_reward |-> 0, cliff_reward |-> -100,
     wind |-> << >>]

n_states(e) == e.height * e.width
States(e) == 0 .. (n_states(e) - 1)

\* variant: only the first corner of the plain grid is terminal
terminal_states_first_corner_only(e) ==
    IF e.kind = "basic" THEN {0} ELSE {e.goal_state}

\* self.terminal_states = [0, n_states - 1]  (plain grid); the goal otherwise
terminal_states(e) ==
    IF e.kind = "basic" THEN {0, n_states(e) - 1} ELSE {e.goal_state}

\* self.cliff_states: bottom row, columns 1 .. width-2
cliff_states(e) ==
    IF e.kind = "cliff"
    THEN {(e.height - 1) * e.width + col : col \in 1 .. (e.width - 2)}
    ELSE {}

state_to_position(e, state) == <<state \div e.width, state % e.width>>
position_to_state(e, row, col) == row * e.width + col
is_terminal(e, state) == state \in terminal_states(e)
is_cliff(e, state) == state \in cliff_states(e)
is_valid_position(e, row, col) ==
    0 <= row /\ row < e.height /\ 0 <= col /\ col < e.width
clip_position(e, row, col) ==
    <<Max2(0, Min2(e.height - 1, row)), Max2(0, Min2(e.width - 1, col))>>

Transition(prob, next_state, reward, done) ==
    [prob |-> prob, next_state |-> next_state, reward |-> reward, done |-> done]

\* variant: the terminal corners are left like any other cell
BasicP_terminal_not_absorbing(e, state, action) ==
    LET pos == state_to_position(e, state)
        new_row == pos[1] + ACTION_DELTAS(action)[1]
        new_col == pos[2] + ACTION_DELTAS(action)[2]
        next_state == IF is_valid_position(e, new_row, new_col)
                      THEN position_to_state(e, new_row, new_col)
                      ELSE state
        done == is_terminal(e, next_state)
        reward == IF done THEN e.goal_reward ELSE e.step_reward
    IN <<Transition(1, next_state, reward, done)>>

\* variant: the destination is not checked against the grid
BasicP_unchecked_destination(e, state, action) ==
    IF state \in {0, e.height * e.width - 1}
    THEN <<Transition(1, state, 0, TRUE)>>
    ELSE LET pos == state_to_position(e, state)
             new_row == pos[1] + ACTION_DELTAS(action)[1]
             new_col == pos[2] + ACTION_DELTAS(action)[2]
             next_state == (new_row * e.width + new_col) % (e.height * e.width)
             done == next_state \in {0, e.height * e.width - 1}
             reward == IF done THEN e.goal_reward ELSE e.step_reward
         IN <<Transition(1, next_state, reward, done)>>

\* BasicGridEnv._build_transition_matrix : P[state][action]
BasicP(e, state, action) ==
    IF is_terminal(e, state)
    THEN <<Transition(1, state, 0, TRUE)>>
    ELSE LET pos == state_to_position(e, state)
             new_row == pos[1] + ACTION_DELTAS(action)[1]
             new_col == pos[2] + ACTION_DELTAS(action)[2]
             next_state == IF is_valid_position(e, new_row, new_col)
                           THEN position_to_state(e, new_row, new_col)
                           ELSE state
             done == is_terminal(e, next_state)
             reward == IF done THEN e.goal_reward ELSE e.step_reward
         IN <<Transition(1, next_state, reward, done)>>

\* variant: the wind pushes the agent without clipping to the grid
WindyP_unclipped(e, state, action) ==
    IF state = e.goal_state
    THEN <<Transition(1, state, 0, TRUE)>>
    ELSE LET pos == state_to_position(e, state)
             col == pos[2]
             wind_effect == IF col < Len(e.wind) THEN e.wind[col + 1] ELSE 0
             new_row == pos[1] + ACTION_DELTAS(action)[1] - wind_effect
             new_col == Max2(0, Min2(e.width - 1, col + ACTION_DELTAS(action)[2]))
             next_state == new_row * e.width + new_col
             done == next_state = e.goal_state
             reward == IF done THEN e.goal_reward ELSE e.step_reward
         IN <<Transition(1, next_state, reward, done)>>

\* WindyGridEnv._build_transition_matrix
WindyP(e, state, action) ==
    IF is_terminal(e, state)
    THEN <<Transition(1, state, 0, TRUE)>>
    ELSE LET pos == state_to_position(e, state)
             col == pos[2]
             wind_effect == IF col < Len(e.wind) THEN e.wind[col + 1] ELSE 0
             new_row == pos[1] + ACTION_DELTAS(action)[1] - wind_effect
             new_col == col + ACTION_DELTAS(action)[2]
             clipped == clip_position(e, new_row, new_col)
             next_state == position_to_state(e, clipped[1], clipped[2])
             done == is_terminal(e, next_state)
             reward == IF done THEN e.goal_reward ELSE e.step_reward
         IN <<Transition(1, next_state, reward, done)>>

\* variant: a fall is charged cliff_reward but the agent is left on the cliff
CliffP_no_relocation(e, state, action) ==
    IF state = e.goal_state
    THEN <<Transition(1, state, 0, TRUE)>>
    ELSE LET pos == state_to_position(e, state)
             new_row == pos[1] + ACTION_DELTAS(action)[1]
             new_col == pos[2] + ACTION_DELTAS(action)[2]
             clipped == clip_position(e, new_row, new_col)
             next_state == position_to_state(e, clipped[1], clipped[2])
         IN IF is_cliff(e, next_state)
            THEN <<Transition(1, next_state, e.cliff_reward, FALSE)>>
            ELSE IF next_state = e.goal_state
            THEN <<Transition(1, next_state, e.goal_reward, TRUE)>>
            ELSE <<Transition(1, next_state, e.step_reward, FALSE)>>

\* CliffWalkingEnv._build_transition_matrix
CliffP(e, state, action) ==
    IF is_terminal(e, state)
    THEN <<Transition(1, state, 0, TRUE)>>
    ELSE IF is_cliff(e, state)
    THEN <<Transition(1, e.start_state, e.cliff_reward, FALSE)>>
    ELSE LET pos == state_to_position(e, state)
             new_row == pos[1] + ACTION_DELTAS(action)[1]
             new_col == pos[2] + ACTION_DELTAS(action)[2]
             clipped == clip_position(e, new_row, new_col)
             next_state == position_to_state(e, clipped[1], clipped[2])
         IN IF is_cliff(e, next_state)
            THEN <<Transition(1, e.start_state, e.cliff_reward, FALSE)>>
            ELSE IF is_terminal(e, next_state)
            THEN <<Transition(1, next_state, e.goal_reward, TRUE)>>
            ELSE <<Transition(1, next_state, e.step_reward, FALSE)>>

\* env.P[state][action], whichever environment env is
P(e, state, action) ==
    CASE e.kind = "basic" -> BasicP(e, state, action)
      [] e.kind = "windy" -> WindyP(e, state, action)
      [] e.kind = "cliff" -> CliffP(e, state, action)

\* ------------------------------------------------------------------------
\* State
\* ------------------------------------------------------------------------
VARIABLES
    \* --- environment object
    env,            \* the environment object's configuration
    current_state,  \* env.current_state (NoState until reset)
    lastStep,       \* the StepResult of the latest env.step, with its inputs
    sinceReset,     \* "none" | "default" | "given": how the latest reset was called
    envCall,        \* the latest call of reset / step: its argument and what it raised
    \* --- DPSolver object
    gamma,          \* self.gamma, a fraction [num, den]
    max_iterations, \* self.max_iterations
    V,              \* self.V
    policy,         \* self.policy, in twelfths
    \* --- the DP call in progress
    dp_pc,          \* "idle" | "pe" | "improve" | "vi"
    call,           \* the top-level call that is running, "none" when idle
    in_place,       \* policy_evaluation's in_place argument
    peV,            \* policy_evaluation's local V
    peVnew,         \* policy_evaluation's local V_new
    sweep_state,    \* the loop variable `state` of the sweep
    delta,          \* the sweep's max delta so far
    iteration,      \* sweeps finished by the running evaluation / value iteration
    episode,        \* policy_iteration's round counter
    total_iterations, \* policy_iteration's count of evaluation records
    evalCapHit,     \* some evaluation of this run stopped at the cap, delta >= theta
    \* --- what the calls made so far have returned
    calls,          \* top-level calls finished on this solver
    allCalls,       \* top-level calls finished on any solver
    solvers,        \* solvers constructed
    lastCall,       \* the latest finished call on this solver
    returned,       \* the DPResults returned, oldest first
    \* --- the records a DPSolver keeps (followed in SpecHist only)
    callback,       \* self.callback is set
    history,        \* self.history
    episode_history, \* self.episode_history
    records,        \* policy_evaluation's local list `records`
    callback_log,   \* the records self.callback has been called with, in order
    handed,         \* per DPResult returned: the solver whose lists it holds, and
                    \* how long they were at the return
    \* --- TDSolver object and the sarsa / q_learning call in progress
    solver,         \* alpha, gamma, epsilon, epsilon_decay, min_epsilon
    Q,              \* self.Q
    run,            \* the locals of sarsa / q_learning, and where the call stands
    tdStep,         \* the latest step of the inner loop: what it read and chose
    tdResult,       \* the TDResult returned
    \* --- a second TDSolver built over the same environment object (SpecShared)
    active,         \* which of the two solvers the TD variables above belong to
    parked,         \* the other solver: its Q, run, tdStep and tdResult
    switches,       \* how often the running solver has changed
    \* --- XMLExporter
    xmlResult,      \* the DPResult handed to export_basic_gridworld
    xmlFile,        \* the document written to the export directory
    xmlRead,        \* the dict read_xml_log returned
    \* --- the algorithm API
    experiments,    \* the module's dict `experiments`: exp_id -> exp_data
    background_tasks, \* the run_algorithm tasks added and not yet run
    created,        \* experiments created so far (their ids are never reused)
    response        \* the latest HTTP response

envVars == <<env, current_state, lastStep, sinceReset, envCall>>
dpConfig == <<gamma, max_iterations>>
dpLocals == <<in_place, peV, peVnew, sweep_state, delta, iteration, episode,
              total_iterations, evalCapHit>>
dpVars == <<gamma, max_iterations, V, policy, dp_pc, call, in_place, peV, peVnew,
            sweep_state, delta, iteration, episode, total_iterations, evalCapHit,
            calls, allCalls, solvers, lastCall, returned,
            callback, history, episode_history, records, callback_log, handed>>
histVars == <<callback, history, episode_history, records, callback_log, handed>>
tdVars == <<solver, Q, run, tdStep, tdResult, active, parked, switches>>
sharedVars == <<active, parked, switches>>
xmlVars == <<xmlResult, xmlFile, xmlRead>>
apiVars == <<experiments, background_tasks, created, response>>
restVars == <<xmlVars, apiVars>>
vars == <<envVars, dpVars, tdVars, restVars>>

NoStep ==
    [valid |-> FALSE, old_state |-> NoState, action |-> UP,
     next_state |-> NoState, reward |-> 0, done |-> FALSE, n_transitions |-> 0,
     prob |-> 0]

NoEnvCall == [op |-> "none", action |-> UP, error |-> "none"]
EnvCall(op, action, error) == [op |-> op, action |-> action, error |-> error]

\* ------------------------------------------------------------------------
\* Environment operations
\* ------------------------------------------------------------------------
\* reset() : random non-terminal state (plain grid) or the fixed start
DefaultStarts(e) ==
    IF e.kind = "basic"
    THEN {s \in States(e) : s \notin terminal_states(e)}
    ELSE {e.start_state}

EnvReset ==
    /\ \E s \in DefaultStarts(env) : current_state' = s
    /\ sinceReset' = "default"
    /\ lastStep' = NoStep
    /\ envCall' = EnvCall("reset", UP, "none")
    /\ UNCHANGED <<env, dpVars, tdVars>>

\* reset(start_state) : any state the caller names, unchecked
EnvResetTo ==
    /\ \E s \in States(env) : current_state' = s
    /\ sinceReset' = "given"
    /\ lastStep' = NoStep
    /\ envCall' = EnvCall("reset", UP, "none")
    /\ UNCHANGED <<env, dpVars, tdVars>>

\* step(action) : transitions[0] of P[current_state][action]
StepResult(e, s0, action) ==
    LET transitions == P(e, s0, action)
        t == transitions[1]
    IN [valid |-> TRUE, old_state |-> s0, action |-> action,
        next_state |-> t.next_state, reward |-> t.reward, done |-> t.done,
        n_transitions |-> Len(transitions), prob |-> t.prob]

\* variant: step does not look at whether reset was ever called
StepError_no_reset_check(cur, action) ==
    IF action \notin Action THEN "ValueError: not a valid Action" ELSE "none"

\* what step(action) raises before it looks at the table: ValueError when
\* current_state is None, ValueError from Action(action) for an index that is
\* no member of the enum
StepError(cur, action) ==
    IF cur = NoState THEN "ValueError: not initialized"
    ELSE IF action \notin Action THEN "ValueError: not a valid Action"
    ELSE "none"

\* action indices outside the enum that callers are followed with
InvalidActions == {-1, 4}

EnvStep ==
    /\ \E a \in Action :
         /\ StepError(current_state, a) = "none"
         /\ lastStep' = StepResult(env, current_state, a)
         /\ current_state' = lastStep'.next_state
         /\ envCall' = EnvCall("step", a, "none")
    /\ UNCHANGED <<env, sinceReset, dpVars, tdVars>>

\* step(action) leaving by an exception: nothing is assigned before the raise
EnvStepRaises ==
    /\ \E a \in Action \cup InvalidActions :
         /\ StepError(current_state, a) # "none"
         /\ envCall' = EnvCall("step", a, StepError(current_state, a))
    /\ UNCHANGED <<env, current_state, lastStep, sinceReset, dpVars, tdVars>>

EnvChoices ==
    {BasicGridEnv(n) : n \in 3 .. MaxGridSize}
        \cup {WindyGridEnv, CliffWalkingEnv}

\* self.history = [], self.episode_history = [], no callback
NoRecords ==
    /\ callback = FALSE
    /\ history = << >>
    /\ episode_history = << >>
    /\ records = << >>
    /\ callback_log = << >>
    /\ handed = << >>

\* no DPSolver has been constructed
NoSolver ==
    /\ gamma = [num |-> 1, den |-> 1]
    /\ max_iterations = 0
    /\ V = << >>
    /\ policy = << >>
    /\ dp_pc = "idle"
    /\ call = "none"
    /\ in_place = TRUE
    /\ peV = << >>
    /\ peVnew = << >>
    /\ sweep_state = 0
    /\ delta = 0
    /\ iteration = 0
    /\ episode = 0
    /\ total_iterations = 0
    /\ evalCapHit = FALSE
    /\ calls = 0
    /\ allCalls = 0
    /\ solvers = 0
    /\ lastCall = "none"
    /\ returned = << >>
    /\ NoRecords

\* no step of a TD inner loop has run
NoTDStep ==
    [valid |-> FALSE, algorithm |-> "none", episode |-> 0, step |-> 0,
     state |-> NoState, action |-> UP, reward |-> 0, next_state |-> NoState,
     next_action |-> UP, done |-> FALSE, epsilon |-> 0]

NoRun ==
    [pc |-> "idle", algorithm |-> "none", max_episodes |-> 0,
     max_steps_per_episode |-> 0, episode |-> 0, state |-> NoState, action |-> UP,
     steps |-> 0, total_steps |-> 0, episode_reward |-> 0, current_epsilon |-> 0,
     episode_rewards |-> << >>, episode_lengths |-> << >>, success_count |-> 0,
     start_state |-> NoState, episode_records |-> << >>]

\* experiments = {}, no request made
NoResponse == [op |-> "none", exp_id |-> 0, code |-> 0, body |-> "none"]
NoExperiments ==
    /\ experiments = << >>
    /\ background_tasks = {}
    /\ created = 0
    /\ response = NoResponse

\* nothing has been exported
NoExport ==
    /\ xmlResult = << >>
    /\ xmlFile = << >>
    /\ xmlRead = << >>

\* there is one TDSolver at most
NoSecondSolver ==
    /\ active = 1
    /\ parked = << >>
    /\ switches = 0

\* no TDSolver has been constructed
NoTDSolver ==
    /\ solver = [alpha |-> [num |-> 1, den |-> 2], gamma |-> [num |-> 1, den |-> 1],
                 epsilon |-> 0, epsilon_decay |-> [num |-> 1, den |-> 1],
                 min_epsilon |-> 0]
    /\ Q = << >>
    /\ run = NoRun
    /\ tdStep = NoTDStep
    /\ tdResult = << >>
    /\ NoSecondSolver

InitEnv ==
    /\ env \in EnvChoices
    /\ current_state = NoState
    /\ lastStep = NoStep
    /\ sinceReset = "none"
    /\ envCall = NoEnvCall
    /\ NoSolver
    /\ NoTDSolver
    /\ NoExport
    /\ NoExperiments

NextEnv ==
    \/ EnvReset /\ UNCHANGED restVars
    \/ EnvResetTo /\ UNCHANGED restVars
    \/ EnvStep /\ UNCHANGED restVars
    \/ EnvStepRaises /\ UNCHANGED restVars

SpecEnv == InitEnv /\ [][NextEnv]_vars

\* ------------------------------------------------------------------------
\* Environment properties
\* ------------------------------------------------------------------------
IsDefaultEnv(e) == e \in {BasicGridEnv(4), WindyGridEnv, CliffWalkingEnv}

\* the terminal cells the design names: both corners of the plain grid, the
\* goal cell (3,7) of the windy grid, the goal cell (3,11) of the cliff grid
DesignTerminals(e) ==
    CASE e.kind = "basic" -> {0, e.height * e.width - 1}
      [] e.kind = "windy" -> {37}
      [] e.kind = "cliff" -> {47}

\* the cell an action aims at, held inside the grid
ClampedDest(e, s, a) ==
    LET r == (s \div e.width) + ACTION_DELTAS(a)[1]
        c == (s % e.width) + ACTION_DELTAS(a)[2]
        rr == IF r < 0 THEN 0 ELSE IF r > e.height - 1 THEN e.height - 1 ELSE r
        cc == IF c < 0 THEN 0 ELSE IF c > e.width - 1 THEN e.width - 1 ELSE c
    IN rr * e.width + cc

LeavesGrid(e, s, a) ==
    LET r == (s \div e.width) + ACTION_DELTAS(a)[1]
        c == (s % e.width) + ACTION_DELTAS(a)[2]
    IN r < 0 \/ r >= e.height \/ c < 0 \/ c >= e.width

\* C8: in each default environment every entry P[s][a] is a single tuple of
\* probability 1 whose next_state is a state of the grid and whose terminal
\* flag is true exactly when next_state is a terminal state; and a step
\* returns that tuple.
C8_TransitionTable ==
    IsDefaultEnv(env) =>
        /\ \A s \in 0 .. (env.height * env.width - 1) : \A a \in Action :
             LET tr == P(env, s, a)
             IN /\ Len(tr) = 1
                /\ tr[1].prob = 1
                /\ tr[1].next_state \in 0 .. (env.height * env.width - 1)
                /\ tr[1].done = (tr[1].next_state \in DesignTerminals(env))
        /\ lastStep.valid =>
             /\ lastStep.n_transitions = 1 /\ lastStep.prob = 1
             /\ current_state = lastStep.next_state
             /\ current_state \in 0 .. (env.height * env.width - 1)
             /\ lastStep.done = (current_state \in DesignTerminals(env))

C8_Witness ==
    /\ env = CliffWalkingEnv
    /\ lastStep.valid /\ lastStep.done
    /\ lastStep.old_state # lastStep.next_state

\* C9 as stated: in the default cliff grid every action whose clamped
\* destination is a cliff cell moves the agent to start_state with reward
\* cliff_reward and done = false (checked on runs begun by reset()).
C9_Original ==
    (env = CliffWalkingEnv /\ sinceReset = "default" /\ lastStep.valid
       /\ ClampedDest(env, lastStep.old_state, lastStep.action)
              \in cliff_states(env))
      => /\ lastStep.next_state = env.start_state
         /\ lastStep.reward = env.cliff_reward
         /\ lastStep.done = FALSE

\* C9 amended: in the default cliff grid every action taken from a state
\* other than the goal whose clamped destination is a cliff cell moves the
\* agent to start_state with reward cliff_reward and done = false (from the
\* goal every action stays on the goal with reward 0 and done = true);
\* done = true is returned only on a transition into the goal cell; after
\* reset() and any sequence of steps the current state is never a cliff cell.
C9_CliffRelocates ==
    env = CliffWalkingEnv =>
        /\ (lastStep.valid /\ lastStep.old_state # 47
              /\ ClampedDest(env, lastStep.old_state, lastStep.action)
                     \in 37 .. 46)
             => /\ lastStep.next_state = 36
                /\ lastStep.reward = -100
                /\ lastStep.done = FALSE
        /\ (lastStep.valid /\ lastStep.old_state = 47)
             => /\ lastStep.next_state = 47
                /\ lastStep.reward = 0
                /\ lastStep.done = TRUE
        /\ (lastStep.valid /\ lastStep.done) => lastStep.next_state = 47
        /\ sinceReset = "default" => current_state \notin 37 .. 46

C9_Witness ==
    /\ env = CliffWalkingEnv /\ sinceReset = "default" /\ lastStep.valid
    /\ lastStep.old_state \notin {36, 47}
    /\ ClampedDest(env, lastStep.old_state, lastStep.action) \in 37 .. 46
    /\ current_state = 36

\* C10 as stated: on the plain grid step(up) from every state of row 0, and
\* every action that would leave the grid, returns next_state = state and
\* reward = step_reward (checked on runs begun by reset()).
C10_Original ==
    (env.kind = "basic" /\ sinceReset = "default" /\ lastStep.valid
       /\ LeavesGrid(env, lastStep.old_state, lastStep.action))
      => /\ lastStep.next_state = lastStep.old_state
         /\ lastStep.reward = env.step_reward

\* C10 amended: on the plain grid of any size, every action that would leave
\* the grid (step(up) from row 0 among them) holds the position, with no
\* wrap-around; it yields step_reward when taken from a non-terminal state
\* and reward 0 when taken from a terminal corner.
C10_BoundaryHolds ==
    (env.kind = "basic" /\ lastStep.valid
       /\ LeavesGrid(env, lastStep.old_state, lastStep.action))
      => /\ lastStep.next_state = lastStep.old_state
         /\ current_state = lastStep.old_state
         /\ lastStep.reward =
              IF lastStep.old_state \in {0, env.height * env.width - 1}
              THEN 0 ELSE -1

C10_Witness ==
    /\ env.kind = "basic" /\ lastStep.valid
    /\ lastStep.old_state \in 1 .. (env.width - 1)
    /\ lastStep.action = UP
    /\ lastStep.next_state = lastStep.old_state
    /\ lastStep.reward = -1

\* the row an action would lead to without wind, held inside the grid
NominalRow(e, s, a) ==
    LET r == (s \div e.width) + ACTION_DELTAS(a)[1]
    IN IF r < 0 THEN 0 ELSE IF r > e.height - 1 THEN e.height - 1 ELSE r

WindAt(e, s) == e.wind[(s % e.width) + 1]

\* C11, for steps taken from non-terminal states: in the windy grid a step
\* from a column of wind strength w > 0 ends in a row that is at most
\* max(0, r_nominal - w), r_nominal being the row the action would yield
\* without wind after clamping to the grid.
C11_WindShiftsBeyondNominal ==
    (env = WindyGridEnv /\ lastStep.valid
       /\ lastStep.old_state # 37
       /\ WindAt(env, lastStep.old_state) > 0)
      => LET w == WindAt(env, lastStep.old_state)
             nominal == NominalRow(env, lastStep.old_state, lastStep.action)
             bound == IF nominal - w < 0 THEN 0 ELSE nominal - w
         IN (lastStep.next_state \div env.width) <= bound

\* C12: on every environment a step called before any reset raises an
\* error, and a step called with an action index outside {0,1,2,3} raises an
\* error; in both cases no transition is taken: current_state and the latest
\* StepResult are what they were before the call.
C12_FailedStepLeavesStateAlone ==
    [][(envCall'.op = "step"
          /\ (current_state = NoState \/ envCall'.action \notin {0, 1, 2, 3}))
         => /\ envCall'.error # "none"
            /\ current_state' = current_state
            /\ lastStep' = lastStep
      ]_vars

\* a step with an index outside the enum was refused after earlier steps
C12_Witness ==
    /\ envCall.op = "step" /\ envCall.error # "none"
    /\ envCall.action = 4
    /\ lastStep.valid /\ current_state = lastStep.next_state
    /\ lastStep.old_state # lastStep.next_state

\* C13: terminal states are absorbing: once a step has returned done = true,
\* every further step that returns, with any action and until reset is
\* called, returns the same state again with reward 0 and done = true.
C13_TerminalStatesAbsorb ==
    [][(lastStep.valid /\ lastStep.done
          /\ envCall'.op = "step" /\ envCall'.error = "none")
         => /\ lastStep'.valid
            /\ lastStep'.old_state = lastStep.next_state
            /\ lastStep'.next_state = lastStep.next_state
            /\ lastStep'.reward = 0
            /\ lastStep'.done
            /\ current_state' = lastStep.next_state
      ]_vars

\* a step was taken from the corner the run had ended in
C13_Witness ==
    /\ env = BasicGridEnv(4) /\ sinceReset = "default"
    /\ lastStep.valid /\ lastStep.done
    /\ lastStep.old_state = 15 /\ lastStep.next_state = 15
    /\ lastStep.action = UP

\* ------------------------------------------------------------------------
\* DP solver: arithmetic
\* ------------------------------------------------------------------------
\* one unit of value is 1/SCALE
SCALE == 10 * 1000 * 1000
\* theta = 1e-6, in units
theta == SCALE \div (1000 * 1000)
\* max_iterations = 1000
DefaultMaxIterations == 1000
\* a probability of 1.0, in twelfths (1/2, 1/3 and 1/4 are whole)
ONE == 3 * 4

\* floor(x * n / d) without forming x * n
MulDiv(x, n, d) == n * (x \div d) + (n * (x % d)) \div d

\* prob * (reward + gamma * V[next_state]) for one transition tuple
TermValue(g, v, t) ==
    t.prob * (t.reward * SCALE + MulDiv(v[t.next_state], g.num, g.den))

RECURSIVE SumTransitions(_, _, _, _)
SumTransitions(g, v, transitions, i) ==
    IF i > Len(transitions) THEN 0
    ELSE TermValue(g, v, transitions[i]) + SumTransitions(g, v, transitions, i + 1)

\* action_values[action] : the sum over P[state][action]
action_value(e, g, v, s, a) == SumTransitions(g, v, P(e, s, a), 1)

action_values(e, g, v, s) == [a \in Action |-> action_value(e, g, v, s, a)]

\* max of a 4-vector, np.argmax (first index of the max), np.where(x == max)
RowMax(row) == CHOOSE m \in {row[a] : a \in Action} : \A a \in Action : row[a] <= m
argmax(row) ==
    CHOOSE a \in Action : row[a] = RowMax(row) /\ \A b \in Action : b < a => row[b] < row[a]
where_max(row) == {a \in Action : row[a] = RowMax(row)}

\* policy_evaluation's new_value: sum over actions of
\* action_prob * prob * (reward + gamma * V[next_state]), probabilities in twelfths
expected_value(e, g, v, pol, s) ==
    LET av == action_values(e, g, v, s)
        w == pol[s]
    IN (w[0] * (av[0] \div ONE) + w[1] * (av[1] \div ONE)
          + w[2] * (av[2] \div ONE) + w[3] * (av[3] \div ONE))
       + ((w[0] * (av[0] % ONE) + w[1] * (av[1] % ONE)
             + w[2] * (av[2] % ONE) + w[3] * (av[3] % ONE)) \div ONE)

ZeroRow == [a \in Action |-> 0]
UniformOver(best) == [a \in Action |-> IF a \in best THEN ONE \div Cardinality(best) ELSE 0]

\* DPSolver._init_random_policy
init_random_policy(e) ==
    [s \in States(e) |-> IF s \in terminal_states(e) THEN ZeroRow ELSE UniformOver(Action)]

\* self.V = np.zeros(env.n_states)
zeros(e) == [s \in States(e) |-> 0]

\* variant: the whole probability goes to the first best action
improved_policy_first_best(e, g, v) ==
    [s \in States(e) |->
        IF s \in terminal_states(e) THEN ZeroRow
        ELSE UniformOver({argmax(action_values(e, g, v, s))})]

\* DPSolver.policy_improvement : new_policy
improved_policy(e, g, v) ==
    [s \in States(e) |->
        IF s \in terminal_states(e) THEN ZeroRow
        ELSE UniformOver(where_max(action_values(e, g, v, s)))]

\* variant: the improvement always reports a stable policy
policy_stable_always(e, g, v, pol) == TRUE

\* variant: stable means that the new policy equals the old one
policy_stable_when_unchanged(e, g, v, pol) == improved_policy(e, g, v) = pol

\* DPSolver.policy_improvement : policy_stable
policy_stable(e, g, v, pol) ==
    \A s \in States(e) :
        s \notin terminal_states(e)
            => argmax(pol[s]) \in where_max(action_values(e, g, v, s))

\* DPSolver._extract_policy_from_values
extract_policy_from_values(e, g, v) ==
    [s \in States(e) |->
        IF s \in terminal_states(e) THEN ZeroRow
        ELSE UniformOver(where_max(action_values(e, g, v, s)))]

\* variant: the new value leaves the step's reward out
vi_new_value_without_reward(e, g, v, s) ==
    RowMax(action_values(e, g, v, s)) - e.step_reward * SCALE

\* value_iteration's new_value = action_values.max()
vi_new_value(e, g, v, s) == RowMax(action_values(e, g, v, s))

\* the states a sweep visits: `for state in range(n_states)` minus the
\* `if state in terminal_states: continue` ones
SweepStates(e) == {s \in States(e) : s \notin terminal_states(e)}
FirstSweepState(e) ==
    CHOOSE s \in SweepStates(e) : \A t \in SweepStates(e) : s <= t
HasNextSweepState(e, s) == \E t \in SweepStates(e) : t > s
NextSweepState(e, s) ==
    CHOOSE t \in SweepStates(e) : t > s /\ \A u \in SweepStates(e) : u > s => t <= u

\* ------------------------------------------------------------------------
\* DP solver: operations
\* ------------------------------------------------------------------------
DPResult(algorithm, converged, iterations, episodes, values, pol, met, cap) ==
    [algorithm |-> algorithm, converged |-> converged,
     total_iterations |-> iterations, total_episodes |-> episodes,
     final_values |-> values, final_policy |-> pol,
     \* not fields of the program's DPResult: what happened in the run
     fresh |-> (calls = 0), criterion_met |-> met, eval_cap_hit |-> cap]

\* a top-level call returns to its caller
Return(name) ==
    /\ dp_pc' = "idle"
    /\ call' = "none"
    /\ calls' = calls + 1
    /\ allCalls' = allCalls + 1
    /\ lastCall' = name

\* DPSolver.__init__ : a fresh solver over the same environment
NewSolver ==
    /\ dp_pc = "idle"
    /\ calls > 0
    /\ solvers < MaxSolvers
    /\ V' = zeros(env)
    /\ policy' = init_random_policy(env)
    /\ calls' = 0
    /\ solvers' = solvers + 1
    /\ lastCall' = "none"
    /\ UNCHANGED <<envVars, tdVars, dpConfig, dpLocals, dp_pc, call, allCalls, returned>>

\* policy_evaluation, up to the first state of the first sweep
StartEvaluation(ip) ==
    /\ in_place' = ip
    /\ peV' = V
    /\ peVnew' = V
    /\ iteration' = 0
    /\ delta' = 0
    /\ sweep_state' = FirstSweepState(env)
    /\ dp_pc' = "pe"

CanCall == dp_pc = "idle" /\ allCalls < MaxCalls

\* solver.policy_evaluation(in_place=...)
CallPolicyEvaluation ==
    /\ CanCall
    /\ \E ip \in BOOLEAN : StartEvaluation(ip)
    /\ call' = "policy_evaluation"
    /\ total_iterations' = 0
    /\ evalCapHit' = FALSE
    /\ UNCHANGED <<envVars, tdVars, dpConfig, V, policy, episode, calls, allCalls, solvers,
                   lastCall, returned>>

\* run_algorithm(exp_id, POLICY_EVALUATION) on the solver start_algorithm built
CallApiPolicyEvaluation ==
    /\ CanCall
    /\ calls = 0
    /\ StartEvaluation(TRUE)
    /\ call' = "api_policy_evaluation"
    /\ total_iterations' = 0
    /\ evalCapHit' = FALSE
    /\ UNCHANGED <<envVars, tdVars, dpConfig, V, policy, episode, calls, allCalls, solvers,
                   lastCall, returned>>

\* solver.policy_iteration()
CallPolicyIteration ==
    /\ CanCall
    /\ StartEvaluation(TRUE)
    /\ call' = "policy_iteration"
    /\ episode' = 0
    /\ total_iterations' = 0
    /\ evalCapHit' = FALSE
    /\ UNCHANGED <<envVars, tdVars, dpConfig, V, policy, calls, allCalls, solvers,
                   lastCall, returned>>

\* variant: the sweep writes into the array it reads, whatever in_place is
PEUpdate_writes_in_place ==
    /\ dp_pc = "pe"
    /\ LET old_value == peV[sweep_state]
           new_value == expected_value(env, gamma, peV, policy, sweep_state)
           Vw == [peV EXCEPT ![sweep_state] = new_value]
           Vn == IF in_place THEN Vw ELSE [peVnew EXCEPT ![sweep_state] = new_value]
           state_delta == Abs(new_value - old_value)
           d == Max2(delta, state_delta)
           Vend == IF in_place THEN Vw ELSE Vn
           it == iteration + 1
       IN /\ total_iterations' = total_iterations + 1
          /\ IF HasNextSweepState(env, sweep_state)
             THEN /\ peV' = Vw
                  /\ peVnew' = Vn
                  /\ delta' = d
                  /\ sweep_state' = NextSweepState(env, sweep_state)
                  /\ UNCHANGED <<V, dp_pc, call, iteration, evalCapHit, calls, allCalls,
                                 lastCall, returned>>
             ELSE IF ~(d < theta) /\ it < max_iterations
             THEN \* next sweep
                  /\ peV' = Vend
                  /\ peVnew' = Vend
                  /\ delta' = 0
                  /\ sweep_state' = FirstSweepState(env)
                  /\ iteration' = it
                  /\ UNCHANGED <<V, dp_pc, call, evalCapHit, calls, allCalls,
                                 lastCall, returned>>
             ELSE \* self.V = V; return V, records
                  /\ V' = Vend
                  /\ peV' = Vend
                  /\ peVnew' = Vend
                  /\ delta' = d
                  /\ iteration' = it
                  /\ evalCapHit' = (evalCapHit \/ ~(d < theta))
                  /\ UNCHANGED sweep_state
                  /\ CASE call = "policy_evaluation" ->
                            /\ Return("policy_evaluation")
                            /\ UNCHANGED returned
                       [] call = "api_policy_evaluation" ->
                            /\ Return("policy_evaluation")
                            /\ returned' = Append(returned,
                                 DPResult("policy_evaluation", TRUE,
                                          total_iterations', 1, Vend, policy,
                                          d < theta, evalCapHit'))
                       [] call = "policy_iteration" ->
                            /\ dp_pc' = "improve"
                            /\ UNCHANGED <<call, calls, allCalls, lastCall, returned>>
    /\ UNCHANGED <<envVars, tdVars, dpConfig, policy, in_place, episode, solvers>>

\* one pass of policy_evaluation's `for state` body, with the end of the sweep
\* and the return when the state is the sweep's last
PEUpdate ==
    /\ dp_pc = "pe"
    /\ LET old_value == peV[sweep_state]
           new_value == expected_value(env, gamma, peV, policy, sweep_state)
           Vw == IF in_place THEN [peV EXCEPT ![sweep_state] = new_value] ELSE peV
           Vn == IF in_place THEN Vw ELSE [peVnew EXCEPT ![sweep_state] = new_value]
           state_delta == Abs(new_value - old_value)
           d == Max2(delta, state_delta)
           Vend == IF in_place THEN Vw ELSE Vn
           it == iteration + 1
       IN /\ total_iterations' = total_iterations + 1
          /\ IF HasNextSweepState(env, sweep_state)
             THEN /\ peV' = Vw
                  /\ peVnew' = Vn
                  /\ delta' = d
                  /\ sweep_state' = NextSweepState(env, sweep_state)
                  /\ UNCHANGED <<V, dp_pc, call, iteration, evalCapHit, calls, allCalls,
                                 lastCall, returned>>
             ELSE IF ~(d < theta) /\ it < max_iterations
             THEN \* next sweep
                  /\ peV' = Vend
                  /\ peVnew' = Vend
                  /\ delta' = 0
                  /\ sweep_state' = FirstSweepState(env)
                  /\ iteration' = it
                  /\ UNCHANGED <<V, dp_pc, call, evalCapHit, calls, allCalls,
                                 lastCall, returned>>
             ELSE \* self.V = V; return V, records
                  /\ V' = Vend
                  /\ peV' = Vend
                  /\ peVnew' = Vend
                  /\ delta' = d
                  /\ iteration' = it
                  /\ evalCapHit' = (evalCapHit \/ ~(d < theta))
                  /\ UNCHANGED sweep_state
                  /\ CASE call = "policy_evaluation" ->
                            /\ Return("policy_evaluation")
                            /\ UNCHANGED returned
                       [] call = "api_policy_evaluation" ->
                            /\ Return("policy_evaluation")
                            /\ returned' = Append(returned,
                                 DPResult("policy_evaluation", TRUE,
                                          total_iterations', 1, Vend, policy,
                                          d < theta, evalCapHit'))
                       [] call = "policy_iteration" ->
                            /\ dp_pc' = "improve"
                            /\ UNCHANGED <<call, calls, allCalls, lastCall, returned>>
    /\ UNCHANGED <<envVars, tdVars, dpConfig, policy, in_place, episode, solvers>>

\* policy_iteration after an evaluation: policy_improvement, the round's
\* record, episode += 1, then the next round's evaluation or the return
PIImprove_ignores_stable ==
    /\ dp_pc = "improve"
    /\ LET stable == policy_stable(env, gamma, V, policy)
           ep == episode + 1
       IN /\ policy' = improved_policy(env, gamma, V)
          /\ episode' = ep
          /\ IF ep < max_iterations
             THEN /\ StartEvaluation(TRUE)
                  /\ UNCHANGED <<call, calls, allCalls, lastCall, returned>>
             ELSE /\ Return("policy_iteration")
                  /\ returned' = Append(returned,
                       DPResult("policy_iteration", ep < max_iterations,
                                total_iterations, ep, V, policy', stable, evalCapHit))
                  /\ UNCHANGED <<in_place, peV, peVnew, sweep_state, delta, iteration>>
    /\ UNCHANGED <<envVars, tdVars, dpConfig, V, total_iterations, evalCapHit, solvers>>

PIImprove ==
    /\ dp_pc = "improve"
    /\ LET stable == policy_stable(env, gamma, V, policy)
           ep == episode + 1
       IN /\ policy' = improved_policy(env, gamma, V)
          /\ episode' = ep
          /\ IF ~stable /\ ep < max_iterations
             THEN /\ StartEvaluation(TRUE)
                  /\ UNCHANGED <<call, calls, allCalls, lastCall, returned>>
             ELSE /\ Return("policy_iteration")
                  /\ returned' = Append(returned,
                       DPResult("policy_iteration", ep < max_iterations,
                                total_iterations, ep, V, policy', stable, evalCapHit))
                  /\ UNCHANGED <<in_place, peV, peVnew, sweep_state, delta, iteration>>
    /\ UNCHANGED <<envVars, tdVars, dpConfig, V, total_iterations, evalCapHit, solvers>>

\* solver.policy_improvement()
CallPolicyImprovement ==
    /\ CanCall
    /\ policy' = improved_policy(env, gamma, V)
    /\ calls' = calls + 1
    /\ allCalls' = allCalls + 1
    /\ lastCall' = "policy_improvement"
    /\ UNCHANGED <<envVars, tdVars, dpConfig, dpLocals, V, dp_pc, call, solvers, returned>>

\* solver.value_iteration(), up to the first state of the first sweep
CallValueIteration ==
    /\ CanCall
    /\ call' = "value_iteration"
    /\ dp_pc' = "vi"
    /\ iteration' = 0
    /\ delta' = 0
    /\ sweep_state' = FirstSweepState(env)
    /\ total_iterations' = 0
    /\ evalCapHit' = FALSE
    /\ UNCHANGED <<envVars, tdVars, dpConfig, V, policy, in_place, peV, peVnew, episode,
                   calls, allCalls, solvers, lastCall, returned>>

\* one pass of value_iteration's `for state` body, with the end of the sweep,
\* the policy extraction and the return when the state is the sweep's last
VIUpdate ==
    /\ dp_pc = "vi"
    /\ LET old_value == V[sweep_state]
           new_value == vi_new_value(env, gamma, V, sweep_state)
           Vw == [V EXCEPT ![sweep_state] = new_value]
           state_delta == Abs(new_value - old_value)
           d == Max2(delta, state_delta)
           it == iteration + 1
       IN /\ V' = Vw
          /\ total_iterations' = total_iterations + 1
          /\ IF HasNextSweepState(env, sweep_state)
             THEN /\ delta' = d
                  /\ sweep_state' = NextSweepState(env, sweep_state)
                  /\ UNCHANGED <<policy, dp_pc, call, iteration, calls, allCalls,
                                 lastCall, returned>>
             ELSE IF ~(d < theta) /\ it < max_iterations
             THEN /\ delta' = 0
                  /\ sweep_state' = FirstSweepState(env)
                  /\ iteration' = it
                  /\ UNCHANGED <<policy, dp_pc, call, calls, allCalls, lastCall, returned>>
             ELSE /\ delta' = d
                  /\ iteration' = it
                  /\ policy' = extract_policy_from_values(env, gamma, Vw)
                  /\ Return("value_iteration")
                  /\ returned' = Append(returned,
                       DPResult("value_iteration", it < max_iterations, it, it,
                                Vw, policy', d < theta, FALSE))
                  /\ UNCHANGED sweep_state
    /\ UNCHANGED <<envVars, tdVars, dpConfig, in_place, peV, peVnew, episode, evalCapHit, solvers>>

GammaChoices == {[num |-> 1, den |-> 1], [num |-> 9, den |-> 10]}

\* the grid sizes on which runs with the default budget of 1000 are followed
\* to their end (larger grids are followed with the small budgets only)
DefaultBudgetSizes == {3, 4}

\* DPSolver(env, gamma, theta, max_iterations) over a plain grid
InitDP ==
    /\ \E n \in 3 .. MaxGridSize :
         /\ env = BasicGridEnv(n)
         /\ max_iterations \in (1 .. SmallMaxIterations)
                \cup (IF n \in DefaultBudgetSizes THEN {DefaultMaxIterations} ELSE {})
    /\ current_state = NoState
    /\ lastStep = NoStep
    /\ sinceReset = "none"
    /\ envCall = NoEnvCall
    /\ gamma \in GammaChoices
    /\ V = zeros(env)
    /\ policy = init_random_policy(env)
    /\ dp_pc = "idle"
    /\ call = "none"
    /\ in_place = TRUE
    /\ peV = zeros(env)
    /\ peVnew = zeros(env)
    /\ sweep_state = 0
    /\ delta = 0
    /\ iteration = 0
    /\ episode = 0
    /\ total_iterations = 0
    /\ evalCapHit = FALSE
    /\ calls = 0
    /\ allCalls = 0
    /\ solvers = 1
    /\ lastCall = "none"
    /\ returned = << >>
    /\ NoRecords
    /\ NoTDSolver
    /\ NoExport
    /\ NoExperiments

\* the solver's calls with its record lists left out of the picture
NextDP ==
    \/ NewSolver /\ UNCHANGED <<histVars, restVars>>
    \/ CallPolicyEvaluation /\ UNCHANGED <<histVars, restVars>>
    \/ CallApiPolicyEvaluation /\ UNCHANGED <<histVars, restVars>>
    \/ CallPolicyIteration /\ UNCHANGED <<histVars, restVars>>
    \/ CallPolicyImprovement /\ UNCHANGED <<histVars, restVars>>
    \/ CallValueIteration /\ UNCHANGED <<histVars, restVars>>
    \/ PEUpdate /\ UNCHANGED <<histVars, restVars>>
    \/ PIImprove /\ UNCHANGED <<histVars, restVars>>
    \/ VIUpdate /\ UNCHANGED <<histVars, restVars>>

SpecDP == InitDP /\ [][NextDP]_vars

\* ------------------------------------------------------------------------
\* DP solver: the records it keeps
\* ------------------------------------------------------------------------
\* BasicGridEnv.ACTION_NAMES
ACTION_NAMES(a) ==
    CASE a = UP -> "up" [] a = DOWN -> "down" [] a = LEFT -> "left" [] a = RIGHT -> "right"

\* float('inf'), larger than every delta
Infinity == 2147483647

\* variant: the signed difference is kept
IterationRecord_signed_delta(it, state, action, old_value, new_value, state_delta) ==
    [iteration |-> it, state |-> state, action |-> action,
     old_value |-> old_value, new_value |-> new_value, delta |-> new_value - old_value]

IterationRecord(it, state, action, old_value, new_value, state_delta) ==
    [iteration |-> it, state |-> state, action |-> action,
     old_value |-> old_value, new_value |-> new_value, delta |-> state_delta]

EpisodeRecord(ep, stable, max_delta, value_function, pol, iterations) ==
    [episode |-> ep, policy_stable |-> stable, max_delta |-> max_delta,
     value_function |-> value_function, policy |-> pol, iterations |-> iterations]

\* max(r.delta for r in eval_records) if eval_records else 0
RECURSIVE MaxDelta(_, _)
MaxDelta(recs, i) ==
    IF i > Len(recs) THEN 0 ELSE Max2(recs[i].delta, MaxDelta(recs, i + 1))

\* self.callback(record), when a callback is set
Callback(record) ==
    callback_log' = IF callback THEN Append(callback_log, record) ELSE callback_log

\* a DPResult is built with history=self.history and
\* episode_history=self.episode_history: the solver's own lists
HandOver ==
    handed' = IF Len(returned') > Len(returned)
              THEN Append(handed, [solver |-> solvers,
                                   history_len |-> Len(history'),
                                   episode_len |-> Len(episode_history')])
              ELSE handed

\* DPSolver.__init__ : self.history = [], self.episode_history = []
NewSolverRecorded ==
    /\ NewSolver
    /\ history' = << >>
    /\ episode_history' = << >>
    /\ records' = << >>
    /\ callback_log' = << >>
    /\ UNCHANGED <<callback, handed>>

\* policy_evaluation : records = []
CallPolicyEvaluationRecorded ==
    /\ CallPolicyEvaluation
    /\ records' = << >>
    /\ UNCHANGED <<callback, history, episode_history, callback_log, handed>>

CallApiPolicyEvaluationRecorded ==
    /\ CallApiPolicyEvaluation
    /\ records' = << >>
    /\ UNCHANGED <<callback, history, episode_history, callback_log, handed>>

CallPolicyIterationRecorded ==
    /\ CallPolicyIteration
    /\ records' = << >>
    /\ UNCHANGED <<callback, history, episode_history, callback_log, handed>>

CallPolicyImprovementRecorded ==
    /\ CallPolicyImprovement
    /\ UNCHANGED histVars

\* policy_evaluation's `for state` body: the IterationRecord it appends to
\* records and to self.history and passes to the callback
PEUpdateRecorded ==
    /\ PEUpdate
    /\ LET old_value == peV[sweep_state]
           new_value == expected_value(env, gamma, peV, policy, sweep_state)
           record == IterationRecord(iteration, sweep_state, "None", old_value,
                                     new_value, Abs(new_value - old_value))
       IN /\ records' = Append(records, record)
          /\ history' = Append(history, record)
          /\ Callback(record)
    /\ UNCHANGED <<callback, episode_history>>
    /\ HandOver

\* policy_iteration after an evaluation: the round's EpisodeRecord
PIImproveRecorded ==
    /\ PIImprove
    /\ episode_history' =
         Append(episode_history,
                EpisodeRecord(episode, policy_stable(env, gamma, V, policy),
                              MaxDelta(records, 1), V, policy', records))
    /\ records' = << >>
    /\ UNCHANGED <<callback, history, callback_log>>
    /\ HandOver

\* value_iteration : the initial snapshot (all-zero values of a fresh solver)
CallValueIterationRecorded ==
    /\ CallValueIteration
    /\ episode_history' =
         Append(episode_history,
                EpisodeRecord(0, FALSE, Infinity, V, init_random_policy(env), << >>))
    /\ UNCHANGED <<callback, history, records, callback_log, handed>>

\* variant: one more snapshot when the state is the sweep's last
VIUpdateRecorded_with_sweep_snapshot ==
    /\ VIUpdate
    /\ LET old_value == V[sweep_state]
           av == action_values(env, gamma, V, sweep_state)
           new_value == RowMax(av)
           state_delta == Abs(new_value - old_value)
           record == IterationRecord(iteration, sweep_state, ACTION_NAMES(argmax(av)),
                                     old_value, new_value, state_delta)
           snapshot == EpisodeRecord(Len(episode_history), FALSE, state_delta, V',
                                     extract_policy_from_values(env, gamma, V'), << >>)
           after_sweep == EpisodeRecord(Len(episode_history) + 1, FALSE,
                                        Max2(delta, state_delta), V',
                                        extract_policy_from_values(env, gamma, V'), << >>)
       IN /\ history' = Append(history, record)
          /\ Callback(record)
          /\ episode_history' =
               IF HasNextSweepState(env, sweep_state)
               THEN Append(episode_history, snapshot)
               ELSE Append(Append(episode_history, snapshot), after_sweep)
    /\ UNCHANGED <<callback, records>>
    /\ HandOver

\* value_iteration's `for state` body: the IterationRecord, the callback and
\* the snapshot taken after the state's update
VIUpdateRecorded ==
    /\ VIUpdate
    /\ LET old_value == V[sweep_state]
           av == action_values(env, gamma, V, sweep_state)
           new_value == RowMax(av)
           state_delta == Abs(new_value - old_value)
           record == IterationRecord(iteration, sweep_state, ACTION_NAMES(argmax(av)),
                                     old_value, new_value, state_delta)
       IN /\ history' = Append(history, record)
          /\ Callback(record)
          /\ episode_history' =
               Append(episode_history,
                      EpisodeRecord(Len(episode_history), FALSE, state_delta, V',
                                    extract_policy_from_values(env, gamma, V'), << >>))
    /\ UNCHANGED <<callback, records>>
    /\ HandOver

\* the grid sizes on which the solver's records are followed
RecordedSizes == {3, 4}

\* DPSolver(env, gamma=1.0, theta, max_iterations, callback) with the smallest
\* or the largest of the small budgets
InitHist ==
    /\ env \in {BasicGridEnv(n) : n \in RecordedSizes}
    /\ current_state = NoState
    /\ lastStep = NoStep
    /\ sinceReset = "none"
    /\ envCall = NoEnvCall
    /\ gamma = [num |-> 1, den |-> 1]
    /\ max_iterations \in {1, SmallMaxIterations}
    /\ V = zeros(env)
    /\ policy = init_random_policy(env)
    /\ dp_pc = "idle"
    /\ call = "none"
    /\ in_place = TRUE
    /\ peV = zeros(env)
    /\ peVnew = zeros(env)
    /\ sweep_state = 0
    /\ delta = 0
    /\ iteration = 0
    /\ episode = 0
    /\ total_iterations = 0
    /\ evalCapHit = FALSE
    /\ calls = 0
    /\ allCalls = 0
    /\ solvers = 1
    /\ lastCall = "none"
    /\ returned = << >>
    /\ callback \in BOOLEAN
    /\ history = << >>
    /\ episode_history = << >>
    /\ records = << >>
    /\ callback_log = << >>
    /\ handed = << >>
    /\ NoTDSolver
    /\ NoExport
    /\ NoExperiments

NextHist ==
    \/ NewSolverRecorded /\ UNCHANGED restVars
    \/ CallPolicyEvaluationRecorded /\ UNCHANGED restVars
    \/ CallApiPolicyEvaluationRecorded /\ UNCHANGED restVars
    \/ CallPolicyIterationRecorded /\ UNCHANGED restVars
    \/ CallPolicyImprovementRecorded /\ UNCHANGED restVars
    \/ CallValueIterationRecorded /\ UNCHANGED restVars
    \/ PEUpdateRecorded /\ UNCHANGED restVars
    \/ PIImproveRecorded /\ UNCHANGED restVars
    \/ VIUpdateRecorded /\ UNCHANGED restVars

SpecHist == InitHist /\ [][NextHist]_vars

\* ------------------------------------------------------------------------
\* DP solver properties
\* ------------------------------------------------------------------------
Results == {returned[i] : i \in DOMAIN returned}

\* 1e-4, in units
Tolerance == SCALE \div (10 * 1000)

PlainFourByFour ==
    /\ env = BasicGridEnv(4)
    /\ env.step_reward = -1
    /\ gamma = [num |-> 1, den |-> 1]
    /\ max_iterations = DefaultMaxIterations

\* C1: on the plain 4x4 grid with step_reward = -1 and gamma = 1 (default
\* max_iterations), policy_iteration on a fresh solver and value_iteration on
\* another fresh solver both return converged results whose final_values
\* agree elementwise within 1e-4.
C1_PolicyIterationAgreesWithValueIteration ==
    PlainFourByFour =>
        \A r1 \in Results : \A r2 \in Results :
            (/\ r1.algorithm = "policy_iteration" /\ r1.fresh
             /\ r2.algorithm = "value_iteration" /\ r2.fresh)
              => /\ r1.converged /\ r2.converged
                 /\ \A s \in 0 .. 15 :
                      /\ r1.final_values[s] - r2.final_values[s] <= Tolerance
                      /\ r2.final_values[s] - r1.final_values[s] <= Tolerance

C1_Witness ==
    /\ PlainFourByFour
    /\ \E r1 \in Results : \E r2 \in Results :
         /\ r1.algorithm = "policy_iteration" /\ r1.fresh
         /\ r2.algorithm = "value_iteration" /\ r2.fresh
         /\ r1.final_values[3] = -2 * SCALE
         /\ r2.final_values[3] = -2 * SCALE

\* C2: for a solver over the plain grid of any size >= 3, the value of both
\* terminal corners is 0 at every point during and after every sequence of
\* policy_evaluation (in place or not), policy_improvement, policy_iteration
\* and value_iteration calls -- in self.V and in the evaluation's working
\* copies.
C2_TerminalValuesStayZero ==
    LET last == env.height * env.width - 1
    IN /\ V[0] = 0 /\ V[last] = 0
       /\ peV[0] = 0 /\ peV[last] = 0
       /\ peVnew[0] = 0 /\ peVnew[last] = 0
       /\ \A r \in Results : r.final_values[0] = 0 /\ r.final_values[last] = 0

C2_Witness ==
    /\ dp_pc = "pe" /\ ~in_place /\ allCalls >= 1
    /\ iteration >= 1
    /\ V[1] < 0 /\ peV[1] < 0 /\ peVnew[1] < peV[1]
    /\ env.height = 3

\* the lookahead value r + gamma * V(s') of action a in state s, for the one
\* transition the tables of these grids hold
Lookahead(s, a) ==
    LET tr == P(env, s, a)[1]
    IN tr.reward * SCALE + MulDiv(V[tr.next_state], gamma.num, gamma.den)

IsGreedyRow(row, s) ==
    LET best == {a \in Action : \A b \in Action : Lookahead(s, b) <= Lookahead(s, a)}
    IN /\ \A a \in Action : (row[a] > 0) <=> (a \in best)
       /\ \A a \in best : \A b \in best : row[a] = row[b]
       /\ row[0] + row[1] + row[2] + row[3] = ONE

\* C3: when policy_improvement, policy_iteration or value_iteration has
\* returned, every non-terminal row of the policy is the uniform distribution
\* over exactly the actions whose lookahead value under the solver's V is
\* maximal (it sums to 1, ties are split equally), and every terminal row is
\* all zero.
C3_PolicyIsUniformOverArgmax ==
    (dp_pc = "idle"
       /\ lastCall \in {"policy_improvement", "policy_iteration", "value_iteration"})
      => \A s \in 0 .. (env.height * env.width - 1) :
            IF s \in {0, env.height * env.width - 1}
            THEN \A a \in Action : policy[s][a] = 0
            ELSE IsGreedyRow(policy[s], s)

C3_Witness ==
    /\ dp_pc = "idle" /\ lastCall = "policy_iteration"
    /\ env.height = 4
    /\ policy[5][UP] = 6 /\ policy[5][LEFT] = 6
    /\ policy[1][LEFT] = 12

\* C4 as stated: converged is true exactly when the stopping criterion was
\* met (a sweep's max delta below theta in value_iteration, a stable
\* improvement in policy_iteration), also when that happens in the
\* max_iterations-th sweep or round.
C4_Original ==
    \A r \in Results :
        r.algorithm \in {"policy_iteration", "value_iteration"}
            => (r.converged <=> r.criterion_met)

\* C5 as stated: when a policy_evaluation of the run stopped at the
\* max_iterations cap with its last sweep's delta >= theta, the result of the
\* run has converged = false.
C5_Original ==
    \A r \in Results : r.eval_cap_hit => ~r.converged

\* ------------------------------------------------------------------------
\* Properties of the DP solver's records
\* ------------------------------------------------------------------------
\* the history / episode_history a returned DPResult shows now: the lists of
\* the solver that built it, as they are now (older solvers are not called
\* any more, their lists stay as they were handed over)
ResultOfThisSolver(i) ==
    /\ handed[i].solver = solvers
    /\ returned[i].algorithm \in {"policy_iteration", "value_iteration"}

\* C14 as stated: once policy_iteration or value_iteration has returned a
\* DPResult, no later call on the same solver changes its history or
\* episode_history: both still have the length they had at the return.
C14_Original ==
    \A i \in DOMAIN handed :
        ResultOfThisSolver(i)
            => /\ Len(history) = handed[i].history_len
               /\ Len(episode_history) = handed[i].episode_len

\* ------------------------------------------------------------------------
\* TD solver: arithmetic
\* ------------------------------------------------------------------------
\* one unit of a Q value is 1/Q_SCALE; an exploration rate is in thousandths
Q_SCALE == 1024 * 1024
EPS_ONE == 10 * 100

\* self.Q = np.zeros((n_states, n_actions))
zerosQ(e) == [s \in States(e) |-> [a \in Action |-> 0]]

\* TDSolver.epsilon_greedy_action : the actions it can return.
\* np.random.random() lies in [0, 1): the random branch (any action) can be
\* taken iff current_epsilon > 0, the greedy branch iff current_epsilon < 1.
epsilon_greedy_action(q, s, current_epsilon) ==
    (IF current_epsilon > 0 THEN Action ELSE {})
        \cup (IF current_epsilon < EPS_ONE THEN {argmax(q[s])} ELSE {})

\* variant: the target bootstraps from the row's maximum, not from Q[s',a']
sarsa_td_target_row_max(q, g, reward, next_state, next_action, done) ==
    reward * Q_SCALE
        + MulDiv(RowMax(q[next_state]), g.num, g.den) * (IF done THEN 0 ELSE 1)

\* sarsa: td_target = reward + gamma * Q[next_state, next_action] * (1 - done)
sarsa_td_target(q, g, reward, next_state, next_action, done) ==
    reward * Q_SCALE
        + MulDiv(q[next_state][next_action], g.num, g.den) * (IF done THEN 0 ELSE 1)

\* variant: the target bootstraps from the first action's entry of the row
q_learning_td_target_first_action(q, g, reward, next_state, done) ==
    reward * Q_SCALE
        + MulDiv(q[next_state][0], g.num, g.den) * (IF done THEN 0 ELSE 1)

\* q_learning: td_target = reward + gamma * np.max(Q[next_state]) * (1 - done)
q_learning_td_target(q, g, reward, next_state, done) ==
    reward * Q_SCALE
        + MulDiv(RowMax(q[next_state]), g.num, g.den) * (IF done THEN 0 ELSE 1)

\* td_error = td_target - Q[state, action]; Q[state, action] += alpha * td_error
td_update(q, al, s, a, td_target) ==
    [q EXCEPT ![s][a] = @ + MulDiv(td_target - @, al.num, al.den)]

\* variant: the probability is split over the tied best actions
extract_policy_split_ties(e, q) ==
    [s \in States(e) |-> UniformOver(where_max(q[s]))]

\* TDSolver._extract_policy
extract_policy(e, q) ==
    [s \in States(e) |-> [a \in Action |-> IF a = argmax(q[s]) THEN ONE ELSE 0]]

\* current_epsilon = max(min_epsilon, current_epsilon * epsilon_decay)
decayed_epsilon(sv, current_epsilon) ==
    Max2(sv.min_epsilon,
         MulDiv(current_epsilon, sv.epsilon_decay.num, sv.epsilon_decay.den))

\* ------------------------------------------------------------------------
\* TD solver: operations
\* ------------------------------------------------------------------------
\* the locals as sarsa / q_learning enter their `for episode` loop
StartRun(algorithm, max_episodes, max_steps_per_episode) ==
    [pc |-> "episode", algorithm |-> algorithm, max_episodes |-> max_episodes,
     max_steps_per_episode |-> max_steps_per_episode, episode |-> 0,
     state |-> NoState, action |-> UP, steps |-> 0, total_steps |-> 0,
     episode_reward |-> 0, current_epsilon |-> solver.epsilon,
     episode_rewards |-> << >>, episode_lengths |-> << >>, success_count |-> 0,
     \* start_state of the episode; self.episode_records after reset_q_values
     start_state |-> NoState, episode_records |-> << >>]

\* solver.sarsa(max_episodes, max_steps_per_episode), up to the first episode
CallSarsa ==
    /\ run.pc = "idle"
    /\ \E me \in {1, MaxEpisodes} : \E ms \in {1, MaxStepsPerEpisode} :
         run' = StartRun("sarsa", me, ms)
    /\ Q' = zerosQ(env)
    /\ tdStep' = NoTDStep
    /\ UNCHANGED <<envVars, dpVars, solver, tdResult>>

\* solver.q_learning(max_episodes, max_steps_per_episode), up to the first episode
CallQLearning ==
    /\ run.pc = "idle"
    /\ \E me \in {1, MaxEpisodes} : \E ms \in {1, MaxStepsPerEpisode} :
         run' = StartRun("q_learning", me, ms)
    /\ Q' = zerosQ(env)
    /\ tdStep' = NoTDStep
    /\ UNCHANGED <<envVars, dpVars, solver, tdResult>>

\* sarsa, top of an episode: env.reset() and the first epsilon-greedy action
SarsaEpisodeStart ==
    /\ run.pc = "episode"
    /\ run.algorithm = "sarsa"
    /\ \E s \in DefaultStarts(env) :
         /\ current_state' = s
         /\ \E a \in epsilon_greedy_action(Q, s, run.current_epsilon) :
              run' = [run EXCEPT !.pc = "step", !.state = s, !.action = a,
                                 !.episode_reward = 0, !.steps = 0,
                                 !.start_state = s]
    /\ sinceReset' = "default"
    /\ lastStep' = NoStep
    /\ envCall' = EnvCall("reset", UP, "none")
    /\ UNCHANGED <<env, dpVars, solver, Q, tdStep, tdResult>>

\* q_learning, top of an episode: env.reset()
QLearningEpisodeStart ==
    /\ run.pc = "episode"
    /\ run.algorithm = "q_learning"
    /\ \E s \in DefaultStarts(env) :
         /\ current_state' = s
         /\ run' = [run EXCEPT !.pc = "step", !.state = s,
                               !.episode_reward = 0, !.steps = 0,
                               !.start_state = s]
    /\ sinceReset' = "default"
    /\ lastStep' = NoStep
    /\ envCall' = EnvCall("reset", UP, "none")
    /\ UNCHANGED <<env, dpVars, solver, Q, tdStep, tdResult>>

\* td_solver.EpisodeRecord (the trajectory left out: record_trajectory=False)
TDEpisodeRecord(episode_no, total_reward, steps, start_state, end_state, success) ==
    [episode |-> episode_no, total_reward |-> total_reward, steps |-> steps,
     start_state |-> start_state, end_state |-> end_state, success |-> success]

\* variant: the inner loop makes one pass more than max_steps_per_episode
AfterStep_cap_off_by_one(r, res, next_action) ==
    LET episode_reward == r.episode_reward + res.reward
        steps == r.steps + 1
        counted == [r EXCEPT !.episode_reward = episode_reward, !.steps = steps,
                             !.total_steps = @ + 1]
        advanced == IF res.done THEN counted
                    ELSE [counted EXCEPT !.state = res.next_state,
                                         !.action = next_action]
        success == is_terminal(env, res.next_state)
    IN IF ~res.done /\ steps <= r.max_steps_per_episode
       THEN advanced
       ELSE [advanced EXCEPT
               !.success_count = @ + (IF success THEN 1 ELSE 0),
               !.episode_rewards = Append(@, episode_reward),
               !.episode_lengths = Append(@, steps),
               !.episode_records =
                   Append(@, TDEpisodeRecord(r.episode, episode_reward, steps,
                                             r.start_state, res.next_state, success)),
               !.current_epsilon = decayed_epsilon(solver, @),
               !.episode = @ + 1,
               !.pc = IF r.episode + 1 < r.max_episodes THEN "episode" ELSE "returned"]

\* variant: the exploration rate decays after every pass
AfterStep_decays_each_step(r, res, next_action) ==
    LET episode_reward == r.episode_reward + res.reward
        steps == r.steps + 1
        counted == [r EXCEPT !.episode_reward = episode_reward, !.steps = steps,
                             !.total_steps = @ + 1,
                             !.current_epsilon = decayed_epsilon(solver, @)]
        advanced == IF res.done THEN counted
                    ELSE [counted EXCEPT !.state = res.next_state,
                                         !.action = next_action]
        success == is_terminal(env, res.next_state)
    IN IF ~res.done /\ steps < r.max_steps_per_episode
       THEN advanced
       ELSE [advanced EXCEPT
               !.success_count = @ + (IF success THEN 1 ELSE 0),
               !.episode_rewards = Append(@, episode_reward),
               !.episode_lengths = Append(@, steps),
               !.episode_records =
                   Append(@, TDEpisodeRecord(r.episode, episode_reward, steps,
                                             r.start_state, res.next_state, success)),
               !.current_epsilon = decayed_epsilon(solver, r.current_epsilon),
               !.episode = @ + 1,
               !.pc = IF r.episode + 1 < r.max_episodes THEN "episode" ELSE "returned"]

\* the locals after one pass of the inner loop: the next pass, or, when the
\* pass returned done or was the max_steps_per_episode-th, the end of the
\* episode (success, the appended totals, the decayed exploration rate)
AfterStep(r, res, next_action) ==
    LET episode_reward == r.episode_reward + res.reward
        steps == r.steps + 1
        counted == [r EXCEPT !.episode_reward = episode_reward, !.steps = steps,
                             !.total_steps = @ + 1]
        advanced == IF res.done THEN counted
                    ELSE [counted EXCEPT !.state = res.next_state,
                                         !.action = next_action]
        success == is_terminal(env, res.next_state)
    IN IF ~res.done /\ steps < r.max_steps_per_episode
       THEN advanced
       ELSE [advanced EXCEPT
               !.success_count = @ + (IF success THEN 1 ELSE 0),
               !.episode_rewards = Append(@, episode_reward),
               !.episode_lengths = Append(@, steps),
               !.episode_records =
                   Append(@, TDEpisodeRecord(r.episode, episode_reward, steps,
                                             r.start_state, res.next_state, success)),
               !.current_epsilon = decayed_epsilon(solver, @),
               !.episode = @ + 1,
               !.pc = IF r.episode + 1 < r.max_episodes THEN "episode" ELSE "returned"]

TDResult(r, q) ==
    [algorithm |-> r.algorithm, converged |-> TRUE,
     total_episodes |-> r.max_episodes, total_steps |-> r.total_steps,
     final_q_values |-> q, final_policy |-> extract_policy(env, q),
     episode_rewards |-> r.episode_rewards, episode_lengths |-> r.episode_lengths,
     success_count |-> r.success_count]

\* sarsa, one pass of the inner loop
SarsaStep ==
    /\ run.pc = "step"
    /\ run.algorithm = "sarsa"
    /\ run.total_steps < MaxTotalSteps
    /\ LET res == StepResult(env, current_state, run.action)
       IN /\ lastStep' = res
          /\ current_state' = res.next_state
          /\ envCall' = EnvCall("step", run.action, "none")
          /\ \E next_action \in
                  epsilon_greedy_action(Q, res.next_state, run.current_epsilon) :
               /\ Q' = td_update(Q, solver.alpha, run.state, run.action,
                                 sarsa_td_target(Q, solver.gamma, res.reward,
                                                 res.next_state, next_action, res.done))
               /\ tdStep' = [valid |-> TRUE, algorithm |-> "sarsa",
                             episode |-> run.episode, step |-> run.steps,
                             state |-> run.state, action |-> run.action,
                             reward |-> res.reward, next_state |-> res.next_state,
                             next_action |-> next_action, done |-> res.done,
                             epsilon |-> run.current_epsilon]
               /\ run' = AfterStep(run, res, next_action)
    /\ tdResult' = IF run'.pc = "returned" THEN <<TDResult(run', Q')>> ELSE tdResult
    /\ UNCHANGED <<env, sinceReset, dpVars, solver>>

\* q_learning, one pass of the inner loop
QLearningStep ==
    /\ run.pc = "step"
    /\ run.algorithm = "q_learning"
    /\ run.total_steps < MaxTotalSteps
    /\ \E action \in epsilon_greedy_action(Q, run.state, run.current_epsilon) :
         LET res == StepResult(env, current_state, action)
         IN /\ lastStep' = res
            /\ current_state' = res.next_state
            /\ envCall' = EnvCall("step", action, "none")
            /\ Q' = td_update(Q, solver.alpha, run.state, action,
                              q_learning_td_target(Q, solver.gamma, res.reward,
                                                   res.next_state, res.done))
            /\ tdStep' = [valid |-> TRUE, algorithm |-> "q_learning",
                          episode |-> run.episode, step |-> run.steps,
                          state |-> run.state, action |-> action,
                          reward |-> res.reward, next_state |-> res.next_state,
                          next_action |-> action, done |-> res.done,
                          epsilon |-> run.current_epsilon]
            /\ run' = AfterStep([run EXCEPT !.action = action], res, action)
    /\ tdResult' = IF run'.pc = "returned" THEN <<TDResult(run', Q')>> ELSE tdResult
    /\ UNCHANGED <<env, sinceReset, dpVars, solver>>

NoDecay == [num |-> 1, den |-> 1]
Halving == [num |-> 1, den |-> 2]

\* the environments, initial exploration rates (thousandths) and decays followed
TDConfigs ==
    {<<BasicGridEnv(4), 0, NoDecay>>, <<BasicGridEnv(2), 400, Halving>>}
        \cup ({WindyGridEnv, CliffWalkingEnv} \X {0, 100} \X {NoDecay})

\* TDSolver(env, alpha=0.5, gamma=1.0, epsilon, epsilon_decay, min_epsilon=0.01)
InitTD ==
    /\ \E c \in TDConfigs :
         /\ env = c[1]
         /\ solver = [alpha |-> [num |-> 1, den |-> 2],
                      gamma |-> [num |-> 1, den |-> 1],
                      epsilon |-> c[2],
                      epsilon_decay |-> c[3],
                      min_epsilon |-> 10]
    /\ current_state = NoState
    /\ lastStep = NoStep
    /\ sinceReset = "none"
    /\ envCall = NoEnvCall
    /\ NoSolver
    /\ Q = zerosQ(env)
    /\ run = NoRun
    /\ tdStep = NoTDStep
    /\ tdResult = << >>
    /\ NoSecondSolver
    /\ NoExport
    /\ NoExperiments

\* one solver over the environment: nothing else touches it
NextTD ==
    \/ CallSarsa /\ UNCHANGED <<sharedVars, restVars>>
    \/ CallQLearning /\ UNCHANGED <<sharedVars, restVars>>
    \/ SarsaEpisodeStart /\ UNCHANGED <<sharedVars, restVars>>
    \/ QLearningEpisodeStart /\ UNCHANGED <<sharedVars, restVars>>
    \/ SarsaStep /\ UNCHANGED <<sharedVars, restVars>>
    \/ QLearningStep /\ UNCHANGED <<sharedVars, restVars>>

SpecTD == InitTD /\ [][NextTD]_vars

\* ------------------------------------------------------------------------
\* Two TD solvers over one environment object
\* ------------------------------------------------------------------------
\* start_algorithm builds each solver over environments[env_id], the same
\* object for every experiment on that environment; the solvers' calls of
\* env.reset and env.step then interleave on its one current_state.
\* The scheduler moves from one solver to the other between two of their steps.
SwitchSolver ==
    /\ switches < MaxSwitches
    /\ parked' = [Q |-> Q, run |-> run, tdStep |-> tdStep, tdResult |-> tdResult]
    /\ Q' = parked.Q
    /\ run' = parked.run
    /\ tdStep' = parked.tdStep
    /\ tdResult' = parked.tdResult
    /\ active' = 3 - active
    /\ switches' = switches + 1
    /\ UNCHANGED <<envVars, dpVars, solver>>

\* two TDSolver(env, alpha=0.5, gamma=1.0, epsilon=0.0) over one cliff grid
InitShared ==
    /\ env = CliffWalkingEnv
    /\ solver = [alpha |-> [num |-> 1, den |-> 2],
                 gamma |-> [num |-> 1, den |-> 1],
                 epsilon |-> 0,
                 epsilon_decay |-> [num |-> 1, den |-> 1],
                 min_epsilon |-> 10]
    /\ current_state = NoState
    /\ lastStep = NoStep
    /\ sinceReset = "none"
    /\ envCall = NoEnvCall
    /\ NoSolver
    /\ Q = zerosQ(env)
    /\ run = NoRun
    /\ tdStep = NoTDStep
    /\ tdResult = << >>
    /\ active = 1
    /\ parked = [Q |-> zerosQ(env), run |-> NoRun, tdStep |-> NoTDStep,
                 tdResult |-> << >>]
    /\ switches = 0
    /\ NoExport
    /\ NoExperiments

NextShared ==
    \/ CallSarsa /\ UNCHANGED <<sharedVars, restVars>>
    \/ CallQLearning /\ UNCHANGED <<sharedVars, restVars>>
    \/ SarsaEpisodeStart /\ UNCHANGED <<sharedVars, restVars>>
    \/ QLearningEpisodeStart /\ UNCHANGED <<sharedVars, restVars>>
    \/ SarsaStep /\ UNCHANGED <<sharedVars, restVars>>
    \/ QLearningStep /\ UNCHANGED <<sharedVars, restVars>>
    \/ SwitchSolver /\ UNCHANGED restVars

SpecShared == InitShared /\ [][NextShared]_vars

\* ------------------------------------------------------------------------
\* TD solver properties
\* ------------------------------------------------------------------------
\* a pass of the inner loop of the named algorithm happens in this step
InnerStep(algorithm) ==
    /\ run.algorithm = algorithm
    /\ run.pc = "step"
    /\ run'.total_steps = run.total_steps + 1

\* x + alpha * (target - x), in units
Blend(x, target) == x + MulDiv(target - x, solver.alpha.num, solver.alpha.den)

Discounted(x) == MulDiv(x, solver.gamma.num, solver.gamma.den)

GreedyAt(s) == CHOOSE a \in Action :
    /\ \A b \in Action : Q[s][b] <= Q[s][a]
    /\ \A b \in Action : b < a => Q[s][b] < Q[s][a]

\* C6: in every pass of sarsa's inner loop, the action given to env.step is
\* the pair's current action, the next action a' is an epsilon-greedy choice
\* at the state env.step actually returned, Q[s,a] moves by
\* alpha * (r + gamma * Q[s',a'] * (1 - done) - Q[s,a]) for that a', and when
\* the episode goes on the pair (s,a) becomes (s',a'), so a' is the action
\* given to env.step in the next pass.
C6_SarsaUsesTheActionTakenNext ==
    [][InnerStep("sarsa") =>
         LET s  == run.state
             a  == run.action
             s2 == lastStep'.next_state
             a2 == tdStep'.next_action
         IN /\ lastStep'.old_state = current_state
            /\ s = current_state
            /\ lastStep'.action = a
            /\ current_state' = s2
            /\ tdStep'.state = s /\ tdStep'.action = a /\ tdStep'.next_state = s2
            /\ a2 \in Action
            /\ run.current_epsilon = 0 => a2 = GreedyAt(s2)
            /\ Q'[s][a] = Blend(Q[s][a],
                                lastStep'.reward * Q_SCALE
                                  + (IF lastStep'.done THEN 0 ELSE Discounted(Q[s2][a2])))
            /\ \A x \in DOMAIN Q : \A b \in Action :
                 <<x, b>> # <<s, a>> => Q'[x][b] = Q[x][b]
            /\ run'.pc = "step" =>
                 /\ ~lastStep'.done
                 /\ run'.state = s2
                 /\ run'.action = a2
    ]_vars

\* a second or later pass of an episode whose update read a Q[s',a'] that is
\* neither zero nor the largest entry of its row
C6_Witness ==
    /\ tdStep.valid /\ tdStep.algorithm = "sarsa"
    /\ tdStep.step >= 1
    /\ ~tdStep.done
    /\ run.pc = "step"
    /\ tdStep.next_state # tdStep.state
    /\ Q[tdStep.next_state][tdStep.next_action] < 0
    /\ \E b \in Action : Q[tdStep.next_state][b] > Q[tdStep.next_state][tdStep.next_action]
    /\ run.action = tdStep.next_action

\* C7: every pass of q_learning's inner loop changes exactly one entry of
\* the Q table, Q[s,a] for the state s the pass started from and the action a
\* it executed, to Q[s,a] + alpha * (r + gamma * max_b Q[s',b] * (1 - done)
\* - Q[s,a]), the maximum taken over the table as it was before the update;
\* every other entry is unchanged.
C7_QLearningUpdatesOneEntryTowardsGreedyTarget ==
    [][InnerStep("q_learning") =>
         LET s  == current_state
             a  == lastStep'.action
             s2 == lastStep'.next_state
             best == CHOOSE m \in {Q[s2][b] : b \in Action} :
                         \A b \in Action : Q[s2][b] <= m
         IN /\ lastStep'.old_state = s
            /\ run.state = s
            /\ Q'[s][a] = Blend(Q[s][a],
                                lastStep'.reward * Q_SCALE
                                  + (IF lastStep'.done THEN 0 ELSE Discounted(best)))
            /\ \A x \in DOMAIN Q : \A b \in Action :
                 <<x, b>> # <<s, a>> => Q'[x][b] = Q[x][b]
    ]_vars

\* a pass whose target read a row of Q with no zero left in it
C7_Witness ==
    /\ tdStep.valid /\ tdStep.algorithm = "q_learning"
    /\ ~tdStep.done
    /\ tdStep.next_state # tdStep.state
    /\ \A b \in Action : Q[tdStep.next_state][b] < 0
    /\ Q[tdStep.state][tdStep.action] < -(Q_SCALE \div 2)

\* C15 as stated: solvers built over the same environment object may run
\* interleaved and each computes what it would compute alone with the same
\* random choices: every pass of a solver's inner loop gets the table's
\* transition for the solver's own state and chosen action (its next state,
\* its reward, its terminal flag).
C15_Original ==
    tdStep.valid =>
        LET tr == P(env, tdStep.state, tdStep.action)[1]
        IN /\ tdStep.next_state = tr.next_state
           /\ tdStep.reward = tr.reward
           /\ tdStep.done = tr.done

\* the records of the policy_iteration call under way, or of the one that
\* has just returned: the last n of episode_history
Round(n, k) == episode_history[Len(episode_history) - n + k]

C16_RoundsSoFar ==
    /\ call = "policy_iteration" =>
         /\ episode < max_iterations
         /\ iteration <= max_iterations
         /\ dp_pc = "pe" => iteration < max_iterations /\ sweep_state \in SweepStates(env)
         /\ Len(episode_history) >= episode
         /\ \A k \in 1 .. episode :
              /\ Round(episode, k).episode = k - 1
              /\ ~Round(episode, k).policy_stable
    /\ (dp_pc = "idle" /\ lastCall = "policy_iteration") =>
         LET r == returned[Len(returned)]
             n == r.total_episodes
         IN /\ r.algorithm = "policy_iteration"
            /\ n \in 1 .. max_iterations
            /\ Len(episode_history) >= n
            /\ \A k \in 1 .. n :
                 /\ Round(n, k).episode = k - 1
                 /\ k < n => ~Round(n, k).policy_stable
            /\ Round(n, n).value_function = r.final_values
            /\ Round(n, n).policy = r.final_policy

C16_OneRecordPerRound ==
    call = "policy_iteration" =>
        IF dp_pc = "improve"
        THEN LET rec == episode_history'[Len(episode_history')]
             IN /\ episode_history' = Append(episode_history, rec)
                /\ rec.episode = episode
                /\ episode' = episode + 1
                /\ rec.value_function = V
                /\ V' = V
                /\ rec.policy = policy'
                /\ rec.iterations = records
                /\ dp_pc' \in {"idle", "pe"}
                /\ dp_pc' = "idle" <=> (rec.policy_stable \/ episode' = max_iterations)
        ELSE /\ episode_history' = episode_history
             /\ episode' = episode
             /\ dp_pc' \in {"pe", "improve"}
             /\ \/ iteration' > iteration
                \/ iteration' = iteration /\ sweep_state' > sweep_state

\* C16: policy_iteration always returns: while it runs it has completed
\* fewer than max_iterations rounds and its evaluation at most max_iterations
\* sweeps, and every step it takes either ends a round or moves on within
\* the round (to a later sweep, or to a later state of the sweep), so that
\* the steps of a call are bounded; each improvement appends exactly one EpisodeRecord,
\* numbered with the round (0, 1, 2, ...), holding the values the evaluation
\* left and the policy the improvement produced, and nothing else appends
\* one; the call returns exactly at the first round reported stable or at
\* round max_iterations, so that total_episodes is the number of records it
\* appended and only the last of them can have policy_stable set.
C16_PolicyIterationRounds ==
    /\ []C16_RoundsSoFar
    /\ [][C16_OneRecordPerRound]_vars

\* a policy_iteration has returned after two rounds or more, the last stable
C16_Witness ==
    /\ dp_pc = "idle"
    /\ lastCall = "policy_iteration"
    /\ returned[Len(returned)].total_episodes >= 2
    /\ episode_history[Len(episode_history)].policy_stable
    /\ ~episode_history[Len(episode_history) - 1].policy_stable

\* the solver's only call so far is a value_iteration, under way or returned:
\* episode_history was empty when it began, total_iterations counts its state
\* updates and iteration the sweeps it has completed
OnlyValueIteration ==
    \/ call = "value_iteration" /\ calls = 0
    \/ dp_pc = "idle" /\ calls = 1 /\ lastCall = "value_iteration"

LookaheadOf(v, s, a) ==
    LET tr == P(env, s, a)[1]
    IN tr.reward * SCALE + MulDiv(v[tr.next_state], gamma.num, gamma.den)

\* row is the uniform distribution over the actions best for v at s
IsGreedyRowFor(v, row, s) ==
    LET best == {a \in Action : \A b \in Action : LookaheadOf(v, s, b) <= LookaheadOf(v, s, a)}
    IN /\ \A a \in Action : (row[a] > 0) <=> (a \in best)
       /\ \A a \in best : \A b \in best : row[a] = row[b]
       /\ row[0] + row[1] + row[2] + row[3] = ONE

IsSnapshotOf(rec, v) ==
    /\ rec.value_function = v
    /\ ~rec.policy_stable
    /\ rec.iterations = << >>
    /\ \A s \in States(env) :
         IF s \in terminal_states(env)
         THEN \A a \in Action : rec.policy[s][a] = 0
         ELSE IsGreedyRowFor(v, rec.policy[s], s)

C17_SnapshotsSoFar ==
    OnlyValueIteration =>
        /\ Len(episode_history) = total_iterations + 1
        /\ episode_history[1].episode = 0
        /\ episode_history[1].max_delta = Infinity
        /\ episode_history[1].value_function = zeros(env)
        /\ \A k \in 2 .. Len(episode_history) : episode_history[k].episode = k - 1
        /\ total_iterations >= 1 =>
             IsSnapshotOf(episode_history[Len(episode_history)], V)

C17_SnapshotPerUpdate ==
    /\ (dp_pc = "idle" /\ call' = "value_iteration") =>
          /\ Len(episode_history') = Len(episode_history) + 1
          /\ SubSeq(episode_history', 1, Len(episode_history)) = episode_history
          /\ episode_history'[Len(episode_history')].value_function = V
          /\ V' = V
    /\ call = "value_iteration" =>
          /\ Len(episode_history') = Len(episode_history) + 1
          /\ SubSeq(episode_history', 1, Len(episode_history)) = episode_history
          /\ IsSnapshotOf(episode_history'[Len(episode_history')], V')
          /\ \A s \in States(env) : s # sweep_state => V'[s] = V[s]
          /\ total_iterations' = total_iterations + 1

SweptBefore(s) == {u \in States(env) : u \notin terminal_states(env) /\ u < s}

Sweeping == dp_pc \in {"pe", "vi"}

\* within a sweep the records appended so far are those of the non-terminal
\* states below the current one, one each, in increasing order
C18_SweepSoFar ==
    /\ Sweeping =>
         LET n == Cardinality(SweptBefore(sweep_state))
             L == Len(history)
         IN /\ sweep_state \in States(env)
            /\ sweep_state \notin terminal_states(env)
            /\ L >= n
            /\ \A k \in 1 .. n :
                 /\ history[L - n + k].iteration = iteration
                 /\ history[L - n + k].state \in SweptBefore(sweep_state)
                 /\ Cardinality(SweptBefore(history[L - n + k].state)) = k - 1
    /\ \A k \in DOMAIN history :
         /\ history[k].state \notin terminal_states(env)
         /\ history[k].delta = Abs(history[k].new_value - history[k].old_value)
    /\ callback_log = IF callback THEN history ELSE << >>

C18_OneRecordPerUpdate ==
    solvers' = solvers =>
        /\ Len(history') >= Len(history)
        /\ SubSeq(history', 1, Len(history)) = history
        /\ IF Sweeping
           THEN LET rec == history'[Len(history')]
                IN /\ history' = Append(history, rec)
                   /\ rec.state = sweep_state
                   /\ rec.iteration = iteration
                   /\ rec.old_value = (IF dp_pc = "pe" THEN peV ELSE V)[sweep_state]
                   /\ dp_pc = "vi" => rec.new_value = V'[sweep_state]
                   /\ callback_log' = IF callback THEN Append(callback_log, rec)
                                      ELSE callback_log
                   \* the sweep goes on with the next non-terminal state, or
                   \* it has visited the last one
                   /\ IF dp_pc' = dp_pc /\ iteration' = iteration
                      THEN /\ sweep_state' > sweep_state
                           /\ SweptBefore(sweep_state') = SweptBefore(sweep_state) \cup {sweep_state}
                      ELSE /\ SweptBefore(sweep_state) \cup {sweep_state} = SweepStates(env)
                           /\ iteration' = iteration + 1
                           /\ Sweeping' => SweptBefore(sweep_state') = {}
           ELSE /\ history' = history
                /\ callback_log' = callback_log

\* C18: in every sweep of policy_evaluation and of value_iteration one
\* IterationRecord is appended to history per non-terminal state, in
\* increasing state order, none for a terminal state, each with
\* delta = |new_value - old_value| and handed to the callback (when one is
\* set) at once, so in the same order; no step of a solver's DP calls
\* shortens history or changes a record it holds.
C18_HistoryIsAppendOnlyPerState ==
    /\ []C18_SweepSoFar
    /\ [][C18_OneRecordPerUpdate]_vars

\* with a callback set, a first sweep has been recorded whole and a second
\* one is under way, some value having gone down
C18_Witness ==
    /\ Sweeping
    /\ callback
    /\ iteration = 1
    /\ Len(callback_log) > Cardinality(SweepStates(env))
    /\ \E k \in DOMAIN history : history[k].new_value < history[k].old_value

RECURSIVE SumOf(_, _)
SumOf(seq, i) == IF i > Len(seq) THEN 0 ELSE seq[i] + SumOf(seq, i + 1)

\* a pass of the inner loop of either algorithm
AnyInnerStep == InnerStep("sarsa") \/ InnerStep("q_learning")

C19_EpisodesSoFar ==
    /\ run.pc # "idle" =>
         /\ run.max_episodes >= 1
         /\ run.max_steps_per_episode >= 1
         /\ run.episode <= run.max_episodes
         /\ Len(run.episode_rewards) = run.episode
         /\ Len(run.episode_lengths) = run.episode
         /\ Len(run.episode_records) = run.episode
         /\ \A k \in 1 .. run.episode :
              /\ run.episode_lengths[k] \in 1 .. run.max_steps_per_episode
              /\ run.episode_records[k].episode = k - 1
              /\ run.episode_records[k].steps = run.episode_lengths[k]
              /\ run.episode_records[k].total_reward = run.episode_rewards[k]
         /\ run.total_steps = SumOf(run.episode_lengths, 1)
                                + (IF run.pc = "step" THEN run.steps ELSE 0)
         /\ run.pc = "step" =>
              /\ run.episode < run.max_episodes
              /\ run.steps < run.max_steps_per_episode
         /\ run.pc = "episode" => run.episode < run.max_episodes
    /\ run.pc = "returned" <=> tdResult # << >>
    /\ run.pc = "returned" =>
         LET r == tdResult[1]
         IN /\ run.episode = run.max_episodes
            /\ r.total_episodes = run.max_episodes
            /\ Len(r.episode_rewards) = run.max_episodes
            /\ Len(r.episode_lengths) = run.max_episodes
            /\ r.episode_lengths = run.episode_lengths
            /\ r.episode_rewards = run.episode_rewards
            /\ r.total_steps = SumOf(r.episode_lengths, 1)

\* a pass ends its episode exactly when it returned done or was the
\* max_steps_per_episode-th of the episode
C19_EpisodeEnds ==
    AnyInnerStep =>
        /\ tdStep'.valid
        /\ (run'.episode = run.episode + 1)
             <=> (tdStep'.done \/ run.steps + 1 = run.max_steps_per_episode)
        /\ run'.episode \in {run.episode, run.episode + 1}
        /\ run'.episode = run.episode + 1 =>
             /\ run'.episode_lengths = Append(run.episode_lengths, run.steps + 1)
             /\ run'.episode_records[run'.episode].success
                  = is_terminal(env, tdStep'.next_state)
        /\ run'.episode = run.episode =>
             /\ run'.pc = "step"
             /\ run'.steps = run.steps + 1

\* C19: sarsa and q_learning run exactly max_episodes episodes: the result
\* has total_episodes = max_episodes, episode_rewards and episode_lengths of
\* that length, one EpisodeRecord per episode, total_steps the sum of
\* episode_lengths; every episode makes between 1 and max_steps_per_episode
\* passes and ends before the cap only at the first pass that returns done;
\* an episode cut at the cap is appended like any other.
C19_ExactlyMaxEpisodes ==
    /\ []C19_EpisodesSoFar
    /\ [][C19_EpisodeEnds]_vars

\* a run of two episodes has returned, its first episode cut at the cap
\* short of a terminal state and its second one ended by done
C19_Witness ==
    /\ run.pc = "returned"
    /\ run.max_episodes = 2
    /\ run.episode_lengths[1] = run.max_steps_per_episode
    /\ ~run.episode_records[1].success
    /\ run.episode_records[2].success
    /\ tdStep.done

\* the exploration rate of episode k (0-based): solver.epsilon decayed k times
RECURSIVE EpsilonOfEpisode(_)
EpsilonOfEpisode(k) ==
    IF k = 0 THEN solver.epsilon
    ELSE LET rate == EpsilonOfEpisode(k - 1)
             decayed == (rate * solver.epsilon_decay.num) \div solver.epsilon_decay.den
         IN IF decayed < solver.min_epsilon THEN solver.min_epsilon ELSE decayed

current_epsilon_is_zero == run.current_epsilon = 0

C20_RateOfTheEpisode ==
    /\ run.pc # "idle" => run.current_epsilon = EpsilonOfEpisode(run.episode)
    /\ tdStep.valid => tdStep.epsilon = EpsilonOfEpisode(tdStep.episode)

C20_RateChangesBetweenEpisodes ==
    /\ AnyInnerStep =>
         /\ tdStep'.epsilon = run.current_epsilon
         /\ IF run.algorithm = "sarsa"
            THEN /\ tdStep'.action = run.action
                 /\ tdStep'.next_action
                      \in epsilon_greedy_action(Q, tdStep'.next_state, run.current_epsilon)
                 /\ (current_epsilon_is_zero =>
                       tdStep'.next_action = GreedyAt(tdStep'.next_state))
            ELSE /\ tdStep'.action
                      \in epsilon_greedy_action(Q, run.state, run.current_epsilon)
                 /\ (current_epsilon_is_zero => tdStep'.action = GreedyAt(run.state))
         /\ run'.current_epsilon =
              IF run'.episode = run.episode THEN run.current_epsilon
              ELSE EpsilonOfEpisode(run.episode + 1)
    /\ (run.pc = "episode" /\ run'.pc = "step") =>
         /\ run'.current_epsilon = run.current_epsilon
         /\ run.algorithm = "sarsa" =>
              /\ run'.action \in epsilon_greedy_action(Q, run'.state, run.current_epsilon)
              /\ current_epsilon_is_zero => run'.action = GreedyAt(run'.state)

\* C20: every action selection of an episode uses one exploration rate, the
\* initial epsilon in the first episode; the rate is left alone by every pass
\* that does not end its episode and is replaced by
\* max(min_epsilon, rate * epsilon_decay) once, at the episode's end.
C20_EpsilonDecaysOncePerEpisode ==
    /\ []C20_RateOfTheEpisode
    /\ [][C20_RateChangesBetweenEpisodes]_vars

\* the second pass of the second episode of a run that began at 0.4 and
\* halves the rate: it used 0.2
C20_Witness ==
    /\ tdStep.valid
    /\ solver.epsilon = 400
    /\ solver.epsilon_decay = Halving
    /\ tdStep.episode = 1
    /\ tdStep.step = 1
    /\ tdStep.epsilon = 200

\* C21: in a TDResult, every row of final_policy (terminal and never-visited
\* states included) has one entry equal to 1, on the lowest-indexed action
\* that maximises the state's row of final_q_values, and zeros elsewhere.
C21_PolicyIsOneHotOnFirstBest ==
    tdResult # << >> =>
        LET r == tdResult[1]
        IN \A s \in States(env) :
             \E a \in Action :
               /\ r.final_policy[s][a] = ONE
               /\ \A b \in Action : b # a => r.final_policy[s][b] = 0
               /\ \A b \in Action : r.final_q_values[s][b] <= r.final_q_values[s][a]
               /\ \A b \in Action : b < a => r.final_q_values[s][b] < r.final_q_values[s][a]

\* a result where some row has its first entry below two tied best ones (the
\* mass is on the first of the two) and a terminal, all-zero row has the mass
\* on action 0
C21_Witness ==
    /\ tdResult # << >>
    /\ \E s \in States(env) :
         /\ tdResult[1].final_q_values[s][UP] < 0
         /\ tdResult[1].final_q_values[s][DOWN] = 0
         /\ tdResult[1].final_q_values[s][LEFT] = 0
         /\ tdResult[1].final_policy[s][DOWN] = ONE
    /\ \E s \in terminal_states(env) :
         /\ \A a \in Action : tdResult[1].final_q_values[s][a] = 0
         /\ tdResult[1].final_policy[s][UP] = ONE

\* ------------------------------------------------------------------------
\* XML exporter
\* ------------------------------------------------------------------------
\* root.set("xmlns", ...)
XMLNS == "http://rl-gridworld.edu/schema"

\* an ElementTree element: tag, attributes, text, children in document order
Element(tag, attrs, text, children) ==
    [tag |-> tag, attrs |-> attrs, text |-> text, children |-> children]

NoAttrs == [none |-> ""]
Leaf(tag, text) == Element(tag, NoAttrs, text, << >>)

\* str(b).lower() and str(n)
BoolText(b) == IF b THEN "true" ELSE "false"
IntText(n) == [int |-> n]

\* f"{x:.<digits>f}" of x = num / den: the sign and the rounded digits
RECURSIVE Pow10(_)
Pow10(k) == IF k = 0 THEN 1 ELSE 10 * Pow10(k - 1)
Format(num, den, digits) ==
    [negative |-> num < 0, digits |-> digits,
     scaled |-> IF den % Pow10(digits) = 0
                THEN (2 * Abs(num) + den \div Pow10(digits))
                        \div (2 * (den \div Pow10(digits)))
                ELSE (2 * Abs(num) * Pow10(digits) + den) \div (2 * den)]

\* the <State> elements of the final <ValueFunction>
ValueStateElem(metadata, i, v) ==
    Element("State",
            [id |-> IntText(i), row |-> IntText(i \div metadata.grid_size),
             col |-> IntText(i % metadata.grid_size)],
            Format(v, SCALE, 6), << >>)

\* the <Action> elements of a state's policy row: `if prob > 0`
PolicyActionElems(probs) ==
    LET chosen == SelectSeq(<<UP, DOWN, LEFT, RIGHT>>, LAMBDA j : probs[j] > 0)
    IN [k \in DOMAIN chosen |->
          Element("Action",
                  [name |-> ACTION_NAMES(chosen[k]),
                   probability |-> Format(probs[chosen[k]], ONE, 4)],
                  "", << >>)]

PolicyStateElem(metadata, i, probs) ==
    Element("State",
            [id |-> IntText(i), row |-> IntText(i \div metadata.grid_size),
             col |-> IntText(i % metadata.grid_size)],
            "", PolicyActionElems(probs))

IterationElem(record) ==
    Element("Iteration", [number |-> IntText(record.iteration)], "",
            <<Leaf("State", IntText(record.state))>>
              \o (IF record.action # "None" THEN <<Leaf("Action", record.action)>> ELSE << >>)
              \o <<Leaf("OldValue", Format(record.old_value, SCALE, 6)),
                   Leaf("NewValue", Format(record.new_value, SCALE, 6)),
                   Leaf("Delta", Format(record.delta, SCALE, 6)),
                   Leaf("Timestamp", "timestamp")>>)

\* XMLExporter.export_basic_gridworld(metadata, result, iterations): the
\* document it writes (episodes left at None)
export_basic_gridworld(metadata, result, iterations) ==
    LET n == Len(result.final_values)
    IN Element("Experiment", [version |-> "1.0", xmlns |-> XMLNS], "",
         <<Element("Metadata", NoAttrs, "",
             <<Leaf("ExperimentID", metadata.experiment_id),
               Leaf("ExperimentType", metadata.experiment_type),
               Leaf("Algorithm", metadata.algorithm),
               Leaf("CreatedAt", "created_at")>>),
           Element("Configuration", NoAttrs, "",
             <<Leaf("GridSize", IntText(metadata.grid_size)),
               Leaf("DiscountFactor", metadata.gamma),
               Leaf("ConvergenceThreshold", metadata.theta),
               Leaf("StepReward", metadata.step_reward)>>),
           Element("ExecutionSummary", NoAttrs, "",
             <<Leaf("Converged", BoolText(result.converged)),
               Leaf("TotalIterations", IntText(result.total_iterations)),
               Leaf("TotalEpisodes", IntText(result.total_episodes)),
               Leaf("ExecutionTime", "execution_time")>>),
           Element("IterationHistory", NoAttrs, "",
             [k \in DOMAIN iterations |-> IterationElem(iterations[k])]),
           Element("FinalResult", NoAttrs, "",
             <<Element("ValueFunction", NoAttrs, "",
                 [k \in 1 .. n |-> ValueStateElem(metadata, k - 1, result.final_values[k])]),
               Element("Policy", NoAttrs, "",
                 [k \in 1 .. n |-> PolicyStateElem(metadata, k - 1, result.final_policy[k])])>>)>>)

\* a tag as ElementTree holds it after parsing: "{namespace}name", or the
\* bare name when no namespace is in force
QName(ns, name) == [ns |-> ns, name |-> name]

\* ET.parse(filepath).getroot(): an xmlns attribute puts the element and its
\* descendants in that namespace and is not kept as an attribute
RECURSIVE ParseElement(_, _)
ParseElement(e, ns) ==
    LET here == IF "xmlns" \in DOMAIN e.attrs THEN e.attrs.xmlns ELSE ns
    IN [tag |-> QName(here, e.tag),
        attrs |-> [a \in DOMAIN e.attrs \ {"xmlns"} |-> e.attrs[a]],
        text |-> e.text,
        children |-> [k \in DOMAIN e.children |-> ParseElement(e.children[k], here)]]

\* elem.findall(name) and elem.find(name) with a bare name: the children
\* whose tag is that name in no namespace
findall(elem, name) == SelectSeq(elem.children, LAMBDA c : c.tag = QName("", name))
found(elem, name) == Len(findall(elem, name)) > 0
find(elem, name) == findall(elem, name)[1]

\* `for child in section: d[child.tag] = child.text`
TagDict(section) ==
    [tg \in {section.children[k].tag : k \in DOMAIN section.children} |->
       LET last == CHOOSE k \in DOMAIN section.children :
                     /\ section.children[k].tag = tg
                     /\ \A j \in DOMAIN section.children :
                          section.children[j].tag = tg => j <= k
       IN section.children[last].text]

EmptyDict == [k \in {} |-> ""]

SectionDict(root, name) ==
    IF found(root, name) THEN TagDict(find(root, name)) ELSE EmptyDict

ReadValues(values_elem) ==
    LET states == findall(values_elem, "State")
    IN [k \in DOMAIN states |->
          [id |-> states[k].attrs.id, row |-> states[k].attrs.row,
           col |-> states[k].attrs.col, value |-> states[k].text]]

ReadPolicy(policy_elem) ==
    LET states == findall(policy_elem, "State")
    IN [k \in DOMAIN states |->
          [id |-> states[k].attrs.id,
           actions |-> LET acts == findall(states[k], "Action")
                       IN [j \in DOMAIN acts |->
                             [name |-> acts[j].attrs.name,
                              probability |-> acts[j].attrs.probability]]]]

ReadFinalResult(root) ==
    IF ~found(root, "FinalResult") THEN EmptyDict
    ELSE LET final == find(root, "FinalResult")
         IN (IF found(final, "ValueFunction")
             THEN "values" :> ReadValues(find(final, "ValueFunction")) ELSE EmptyDict)
            @@ (IF found(final, "Policy")
                THEN "policy" :> ReadPolicy(find(final, "Policy")) ELSE EmptyDict)

ReadIterations(root) ==
    IF ~found(root, "IterationHistory") THEN << >>
    ELSE LET its == findall(find(root, "IterationHistory"), "Iteration")
         IN [k \in DOMAIN its |-> [number |-> its[k].attrs.number, fields |-> TagDict(its[k])]]

\* XMLExporter.read_xml_log(filepath)
read_xml_log(document) ==
    LET root == ParseElement(document, "")
    IN [metadata |-> SectionDict(root, "Metadata"),
        configuration |-> SectionDict(root, "Configuration"),
        summary |-> SectionDict(root, "ExecutionSummary"),
        iterations |-> ReadIterations(root),
        final_result |-> ReadFinalResult(root)]

\* ExperimentMetadata of a 2x2 experiment
ExportMetadata ==
    [experiment_id |-> "read-test", experiment_type |-> "basic",
     algorithm |-> "value_iteration", grid_size |-> 2,
     gamma |-> "0.9", theta |-> "1e-06", step_reward |-> "-1.0"]

\* values (in units) and policy rows of the exported results
ExportedValues == {0, -SCALE, -(SCALE \div 3)}
ExportedRows == {UniformOver(Action), UniformOver({UP, LEFT}), UniformOver({DOWN})}

\* DPResults of a 2x2 grid: states 0 and 3 terminal
ExportedResults ==
    {[algorithm |-> "value_iteration", converged |-> c, total_iterations |-> it,
      total_episodes |-> it,
      final_values |-> <<0, v1, v2, 0>>,
      final_policy |-> <<ZeroRow, r1, r2, ZeroRow>>] :
        c \in BOOLEAN, it \in 0 .. MaxExportedIterations,
        v1 \in ExportedValues, v2 \in ExportedValues,
        r1 \in ExportedRows, r2 \in ExportedRows}

\* exporter.export_basic_gridworld(metadata, result, iterations=[])
ExportBasicGridworld ==
    /\ Len(xmlResult) = 1
    /\ Len(xmlFile) = 0
    /\ xmlFile' = <<export_basic_gridworld(ExportMetadata, xmlResult[1], << >>)>>
    /\ UNCHANGED <<envVars, dpVars, tdVars, xmlResult, xmlRead, apiVars>>

\* exporter.read_xml_log(filepath)
ReadXmlLog ==
    /\ Len(xmlFile) = 1
    /\ Len(xmlRead) = 0
    /\ xmlRead' = <<read_xml_log(xmlFile[1])>>
    /\ UNCHANGED <<envVars, dpVars, tdVars, xmlResult, xmlFile, apiVars>>

InitXml ==
    /\ env = BasicGridEnv(2)
    /\ current_state = NoState
    /\ lastStep = NoStep
    /\ sinceReset = "none"
    /\ envCall = NoEnvCall
    /\ NoSolver
    /\ NoTDSolver
    /\ xmlResult \in {<<r>> : r \in ExportedResults}
    /\ xmlFile = << >>
    /\ xmlRead = << >>
    /\ NoExperiments

NextXml ==
    \/ ExportBasicGridworld
    \/ ReadXmlLog

SpecXml == InitXml /\ [][NextXml]_vars

\* C22 as stated: what read_xml_log returns for the file written by
\* export_basic_gridworld holds the result's converged flag, its
\* total_iterations, the value of every state and the policy probabilities
\* of every state, as text with 6 decimal places.
C22_Original ==
    Len(xmlRead) = 1 =>
        LET d == xmlRead[1]
            r == xmlResult[1]
        IN /\ QName("", "Converged") \in DOMAIN d.summary
           /\ d.summary[QName("", "Converged")] = BoolText(r.converged)
           /\ QName("", "TotalIterations") \in DOMAIN d.summary
           /\ d.summary[QName("", "TotalIterations")] = IntText(r.total_iterations)
           /\ "values" \in DOMAIN d.final_result
           /\ Len(d.final_result["values"]) = Len(r.final_values)
           /\ \A k \in DOMAIN r.final_values :
                d.final_result["values"][k].value = Format(r.final_values[k], SCALE, 6)
           /\ "policy" \in DOMAIN d.final_result
           /\ Len(d.final_result["policy"]) = Len(r.final_policy)
           /\ \A k \in DOMAIN r.final_policy : \A a \in Action :
                \E j \in DOMAIN d.final_result["policy"][k].actions :
                  LET entry == d.final_result["policy"][k].actions[j]
                  IN /\ entry.name = ACTION_NAMES(a)
                     /\ entry.probability = Format(r.final_policy[k][a], ONE, 6)

\* the lowest-indexed action of highest probability in a policy row
PreviousGreedy(row) ==
    CHOOSE a \in Action :
        /\ \A b \in Action : row[b] <= row[a]
        /\ \A b \in Action : b < a => row[b] < row[a]

\* the actions whose lookahead value under V is maximal at s
BestActions(s) ==
    {a \in Action : \A b \in Action : Lookahead(s, b) <= Lookahead(s, a)}

\* C23: the improvement of a policy_iteration round reports stable exactly
\* when at every non-terminal state the previous greedy action (the
\* lowest-indexed highest-probability action of the policy held before) is
\* one of the actions of maximal lookahead value under the current V.
C23_StableIffPreviousGreedyStillBest ==
    [][(call = "policy_iteration" /\ dp_pc = "improve") =>
         LET rec == episode_history'[Len(episode_history')]
         IN rec.policy_stable <=>
              \A s \in States(env) :
                 s \notin terminal_states(env)
                    => PreviousGreedy(policy[s]) \in BestActions(s)]_vars

\* policy_iteration has returned after an unstable round and a stable one,
\* and in the stable round some state had several best actions
C23_Witness ==
    /\ dp_pc = "idle"
    /\ lastCall = "policy_iteration"
    /\ Len(episode_history) >= 2
    /\ episode_history[Len(episode_history)].policy_stable
    /\ \E k \in DOMAIN episode_history : ~episode_history[k].policy_stable
    /\ \E s \in States(env) :
         Cardinality({a \in Action :
             episode_history[Len(episode_history)].policy[s][a] > 0}) >= 2

\* the record of the k-th of the n states already updated in the sweep under way
SweepRecord(n, k) == history[Len(history) - n + k]

C24_ArrayReadInSweep ==
    dp_pc = "pe" =>
        LET n == Cardinality(SweptBefore(sweep_state))
        IN \A k \in 1 .. n :
             IF in_place
             THEN peV[SweepRecord(n, k).state] = SweepRecord(n, k).new_value
             ELSE /\ peV[SweepRecord(n, k).state] = SweepRecord(n, k).old_value
                  /\ peVnew[SweepRecord(n, k).state] = SweepRecord(n, k).new_value

C24_UpdateOfOneState ==
    dp_pc = "pe" =>
        LET rec == history'[Len(history')]
            written == [peV EXCEPT ![sweep_state] = rec.new_value]
        IN /\ rec.state = sweep_state
           /\ rec.old_value = peV[sweep_state]
           /\ rec.new_value = expected_value(env, gamma, peV, policy, sweep_state)
           /\ IF dp_pc' = "pe" /\ iteration' = iteration
              THEN IF in_place
                   THEN peV' = written
                   ELSE /\ peV' = peV
                        /\ peVnew' = [peVnew EXCEPT ![sweep_state] = rec.new_value]
              ELSE peV' = IF in_place THEN written
                          ELSE [peVnew EXCEPT ![sweep_state] = rec.new_value]

\* C24: every value policy_evaluation computes is computed from the array
\* peV. With in_place=false that array keeps, for every state already
\* updated in the sweep, the value it had before the update (the new values
\* are held aside and replace the old ones when the sweep ends); with
\* in_place=true it holds the new value of every state already updated in
\* the sweep, so the update of a state reads them.
C24_SynchronousOrInPlace ==
    /\ []C24_ArrayReadInSweep
    /\ [][C24_UpdateOfOneState]_vars

\* a synchronous sweep under way: some state already updated has a new value
\* held aside that differs from the one still read
C24_Witness ==
    /\ dp_pc = "pe"
    /\ ~in_place
    /\ \E u \in SweptBefore(sweep_state) : peVnew[u] # peV[u]
    /\ iteration >= 1

(***************************************************************************)
(* The factory functions: create_cliff_walking_env and create_windy_grid_env *)
(* pass height and width to the configuration and leave start_pos and       *)
(* goal_pos (and the wind list) at the configuration's defaults.            *)
(***************************************************************************)

\* CliffWalkingConfig / WindyGridConfig: start_pos and goal_pos defaults
start_pos(kind) == <<3, 0>>
goal_pos(kind) == IF kind = "cliff" THEN <<3, 11>> ELSE <<3, 7>>

\* create_cliff_walking_env(height, width): CliffWalkingEnv.__init__ on the
\* configuration with the given size
create_cliff_walking_env(height, width) ==
    [CliffWalkingEnv EXCEPT
        !.height = height, !.width = width,
        !.start_state = start_pos("cliff")[1] * width + start_pos("cliff")[2],
        !.goal_state = goal_pos("cliff")[1] * width + goal_pos("cliff")[2]]

\* create_windy_grid_env(height, width): WindyGridEnv.__init__ on the
\* configuration with the given size
create_windy_grid_env(height, width) ==
    [WindyGridEnv EXCEPT
        !.height = height, !.width = width,
        !.start_state = start_pos("windy")[1] * width + start_pos("windy")[2],
        !.goal_state = goal_pos("windy")[1] * width + goal_pos("windy")[2]]

\* the default sizes and the sizes the tests build
FactoryEnvs ==
    {create_cliff_walking_env(4, 12), create_cliff_walking_env(5, 10),
     create_windy_grid_env(7, 10), create_windy_grid_env(5, 6)}

InitFactory ==
    /\ env \in FactoryEnvs
    /\ current_state = NoState
    /\ lastStep = NoStep
    /\ sinceReset = "none"
    /\ envCall = NoEnvCall
    /\ NoSolver
    /\ NoTDSolver
    /\ NoExport
    /\ NoExperiments

SpecFactory == InitFactory /\ [][NextEnv]_vars

\* C25: every environment built by the factory functions has start_state and
\* goal_state inside [0, n_states), both convert back to the configured
\* start_pos and goal_pos, and in the cliff grid neither is a cliff cell.
C25_Original ==
    /\ env.start_state \in States(env)
    /\ env.goal_state \in States(env)
    /\ state_to_position(env, env.start_state) = start_pos(env.kind)
    /\ state_to_position(env, env.goal_state) = goal_pos(env.kind)
    /\ env.start_state \notin cliff_states(env)
    /\ env.goal_state \notin cliff_states(env)

\* C26: whenever the improvement of a policy_iteration round reports
\* stable, the policy it installs gives every non-terminal state the action
\* probabilities the solver held before the call.
C26_Original ==
    [][(/\ call = "policy_iteration"
        /\ dp_pc = "improve"
        /\ episode_history'[Len(episode_history')].policy_stable)
          => \A s \in States(env) :
                s \notin terminal_states(env) => policy'[s] = policy[s]]_vars

\* Manhattan distance from s to the nearest terminal corner of the plain grid
CornerDistance(s) ==
    LET row == s \div env.width
        col == s % env.width
    IN Min2(row + col, (env.height - 1 - row) + (env.width - 1 - col))

\* the cell action a aims at from s, s itself when that is off the grid
CellTowards(s, a) ==
    LET row == s \div env.width
        col == s % env.width
    IN IF a = UP THEN (IF row > 0 THEN s - env.width ELSE s)
       ELSE IF a = DOWN THEN (IF row < env.height - 1 THEN s + env.width ELSE s)
       ELSE IF a = LEFT THEN (IF col > 0 THEN s - 1 ELSE s)
       ELSE (IF col < env.width - 1 THEN s + 1 ELSE s)

\* C27: on the plain N x N grid with step_reward -1, terminal reward 0 and
\* gamma 1, value_iteration on a fresh solver with the default max_iterations
\* returns converged = true, final_values[s] = 1 - d(s) at every non-terminal
\* state s (d the Manhattan distance to the nearest terminal corner), and a
\* final_policy whose support at s is exactly the actions moving to a cell
\* of smaller d.
C27_ValueIterationFindsShortestPaths ==
    (/\ env.kind = "basic"
     /\ env.step_reward = -1 /\ env.goal_reward = 0
     /\ gamma = [num |-> 1, den |-> 1]
     /\ max_iterations = DefaultMaxIterations)
      => \A r \in Results :
            (r.algorithm = "value_iteration" /\ r.fresh)
              => /\ r.converged
                 /\ \A s \in States(env) :
                      s \notin {0, n_states(env) - 1}
                        => /\ r.final_values[s] = (1 - CornerDistance(s)) * SCALE
                           /\ \A a \in Action :
                                (r.final_policy[s][a] > 0)
                                  <=> (CornerDistance(CellTowards(s, a))
                                          < CornerDistance(s))

\* value_iteration has returned on a fresh solver over the 4x4 grid: a cell
\* at distance 3 has value -2 and all four actions in its policy row
C27_Witness ==
    /\ env = BasicGridEnv(4)
    /\ gamma = [num |-> 1, den |-> 1]
    /\ max_iterations = DefaultMaxIterations
    /\ \E r \in Results :
         /\ r.algorithm = "value_iteration" /\ r.fresh /\ r.converged
         /\ r.final_values[6] = -2 * SCALE
         /\ \A a \in Action : r.final_policy[6][a] = 3
         /\ r.final_policy[1][LEFT] = ONE

\* the states no pass of a solver's inner loop starts from
NeverLeft(e) == terminal_states(e) \cup cliff_states(e)

AllZeroRow(row) == \A a \in Action : row[a] = 0

C28_RowsNeverWritten ==
    /\ \A s \in NeverLeft(env) : AllZeroRow(Q[s])
    /\ \A i \in DOMAIN tdResult :
         \A s \in NeverLeft(env) : AllZeroRow(tdResult[i].final_q_values[s])
    /\ current_state \notin cliff_states(env)
    /\ run.pc = "step" => current_state \notin terminal_states(env)

C28_WritesTheRowOfTheStateLeft ==
    \A s \in States(env) :
        Q'[s] # Q[s] => /\ s = current_state
                        /\ s = lastStep'.old_state
                        /\ s \notin NeverLeft(env)

\* C28: on the default environments, with one solver, the Q rows of the
\* terminal states and of the cliff cells are all zero during and after
\* every sarsa and q_learning run: an update writes only the row of the
\* state the agent was in before the step, the agent never steps from a
\* terminal state and is never in a cliff cell.
C28_TerminalAndCliffRowsStayZero ==
    /\ []C28_RowsNeverWritten
    /\ [][C28_WritesTheRowOfTheStateLeft]_vars

\* a run on the cliff grid has returned after a fall from the start cell
\* was learned, and a run on a plain grid after an episode reached a corner
C28_Witness ==
    /\ tdResult # << >>
    /\ run.pc = "returned"
    /\ \/ /\ env.kind = "cliff"
          /\ Q[env.start_state][RIGHT] <= -(50 * Q_SCALE)
       \/ /\ env.kind = "basic"
          /\ tdResult[1].success_count >= 1
          /\ \E s \in States(env) : ~AllZeroRow(Q[s])

\* C29: the exploration rate used in a pass of any episode lies between
\* min_epsilon and the configured initial epsilon, it is never above the
\* rate of an earlier episode (so never above the initial epsilon), and with
\* epsilon = 0 it is 0 for the whole run.
C29_Original ==
    tdStep.valid =>
        /\ Min2(solver.min_epsilon, solver.epsilon) <= tdStep.epsilon
        /\ tdStep.epsilon <= Max2(solver.min_epsilon, solver.epsilon)
        /\ tdStep.epsilon <= solver.epsilon
        /\ solver.epsilon = 0 => tdStep.epsilon = 0

(***************************************************************************)
(* The algorithm API: the registry `experiments`, the background run and   *)
(* the request handlers. Every handler is a coroutine without an await, so *)
(* each runs to its end before another starts.                             *)
(***************************************************************************)

MaxExperiments == 2

ExpIds == 1 .. MaxExperiments

\* AlgorithmType
DPAlgorithms == {"policy_evaluation", "policy_iteration", "value_iteration"}
TDAlgorithms == {"sarsa", "q_learning"}

\* request.action.lower() of a control request
ControlActions == {"stop", "pause", "resume", "step"}

Response(op, exp_id, code, body) ==
    [op |-> op, exp_id |-> exp_id, code |-> code, body |-> body]

\* POST /algorithm/start : the experiment is stored with status "running" and
\* run_algorithm is added to the background tasks
start_algorithm ==
    /\ created < MaxExperiments
    /\ \E algorithm \in DPAlgorithms \cup TDAlgorithms :
         LET exp_id == created + 1
         IN /\ experiments' = experiments @@
                 (exp_id :> [algorithm |-> algorithm, status |-> "running",
                             result |-> << >>])
            /\ background_tasks' = background_tasks \cup {exp_id}
            /\ created' = exp_id
            /\ response' = Response("start", exp_id, 200, "running")
    /\ UNCHANGED <<envVars, dpVars, tdVars, xmlVars>>

\* the background task. A DP solver's call returns a DPResult or raises; the
\* TD solvers return a TDResult, which has no total_iterations: the status is
\* set to "completed", the read of result.total_iterations raises and the
\* except clause sets "failed" before the result is stored.
run_algorithm ==
    /\ \E exp_id \in background_tasks :
         /\ background_tasks' = background_tasks \ {exp_id}
         /\ IF exp_id \notin DOMAIN experiments
            THEN UNCHANGED experiments
            ELSE \E raised \in BOOLEAN :
                   LET algorithm == experiments[exp_id].algorithm
                   IN IF algorithm \in DPAlgorithms /\ ~raised
                      THEN experiments' = [experiments EXCEPT
                               ![exp_id].status = "completed",
                               ![exp_id].result = <<algorithm>>]
                      ELSE experiments' = [experiments EXCEPT
                               ![exp_id].status = "failed"]
    /\ UNCHANGED <<created, response>>
    /\ UNCHANGED <<envVars, dpVars, tdVars, xmlVars>>

\* GET /algorithm/result/{exp_id}
get_algorithm_result ==
    /\ \E exp_id \in ExpIds :
         response' =
            IF exp_id \notin DOMAIN experiments
            THEN Response("result", exp_id, 404, "not found")
            ELSE IF experiments[exp_id].status # "completed"
            THEN Response("result", exp_id, 400, experiments[exp_id].status)
            ELSE Response("result", exp_id, 200, experiments[exp_id].result[1])
    /\ UNCHANGED <<experiments, background_tasks, created>>
    /\ UNCHANGED <<envVars, dpVars, tdVars, xmlVars>>

\* POST /algorithm/control/{exp_id}
control_algorithm ==
    /\ \E exp_id \in ExpIds : \E action \in ControlActions :
         IF exp_id \notin DOMAIN experiments
         THEN /\ response' = Response("control", exp_id, 404, "not found")
              /\ UNCHANGED experiments
         ELSE IF action = "stop"
         THEN /\ experiments' = [experiments EXCEPT ![exp_id].status = "stopped"]
              /\ response' = Response("control", exp_id, 200, "stopped")
         ELSE IF action = "pause"
         THEN /\ experiments' = [experiments EXCEPT ![exp_id].status = "paused"]
              /\ response' = Response("control", exp_id, 200, "paused")
         ELSE IF action = "resume"
         THEN /\ experiments' =
                   IF experiments[exp_id].status = "paused"
                   THEN [experiments EXCEPT ![exp_id].status = "running"]
                   ELSE experiments
              /\ response' = Response("control", exp_id, 200, experiments'[exp_id].status)
         ELSE /\ response' = Response("control", exp_id, 400, "unknown action")
              /\ UNCHANGED experiments
    /\ UNCHANGED <<background_tasks, created>>
    /\ UNCHANGED <<envVars, dpVars, tdVars, xmlVars>>

\* DELETE /algorithm/{exp_id}
delete_experiment ==
    /\ \E exp_id \in ExpIds :
         IF exp_id \notin DOMAIN experiments
         THEN /\ response' = Response("delete", exp_id, 404, "not found")
              /\ UNCHANGED experiments
         ELSE /\ experiments' = [e \in DOMAIN experiments \ {exp_id} |-> experiments[e]]
              /\ response' = Response("delete", exp_id, 200, "deleted")
    /\ UNCHANGED <<background_tasks, created>>
    /\ UNCHANGED <<envVars, dpVars, tdVars, xmlVars>>

InitApi ==
    /\ env = BasicGridEnv(4)
    /\ current_state = NoState
    /\ lastStep = NoStep
    /\ sinceReset = "none"
    /\ envCall = NoEnvCall
    /\ NoSolver
    /\ NoTDSolver
    /\ NoExport
    /\ NoExperiments

NextApi ==
    \/ start_algorithm
    \/ run_algorithm
    \/ get_algorithm_result
    \/ control_algorithm
    \/ delete_experiment

SpecApi == InitApi /\ [][NextApi]_vars

\* C30: once an experiment's status is "completed" it stays "completed" for
\* as long as the experiment is in the registry, whatever control requests
\* arrive, so every later get_algorithm_result for it answers with the
\* result; and a background run that finishes leaves a "stopped" status as
\* it is.
C30_Original ==
    [][\A exp_id \in DOMAIN experiments :
          exp_id \in DOMAIN experiments' =>
             /\ experiments[exp_id].status = "completed"
                   => /\ experiments'[exp_id].status = "completed"
                      /\ (response'.op = "result" /\ response'.exp_id = exp_id)
                            => response'.code = 200
             /\ (experiments[exp_id].status = "stopped"
                   /\ background_tasks' # background_tasks)
                   => experiments'[exp_id].status = "stopped"]_vars

====
